---- MODULE Spec2Model ----
(***************************************************************************)
(* Model of qsiprep_analyses: the existence-gated orchestration of tensor  *)
(* estimation (TensorEstimation, dipy and mrtrix variants), of the         *)
(* registration of parcellation schemes (NativeRegistration and            *)
(* NativeParcellation), and of the instantiation helpers.                  *)
(*                                                                         *)
(* Python values: None is the value None; a mapping (dict) is a function   *)
(* from its key set; a list is a sequence; a path is the string pybids     *)
(* renders from an entity mapping.  External collaborators (the file      *)
(* index, the reconstruction workflows, the registration and resampling   *)
(* routines) are modelled by the files they read and write.                *)
(***************************************************************************)
EXTENDS Integers, Sequences, FiniteSets, TLC

VARIABLES
    layout,     \* the file index: for every (participant, session) the state of its DWI input set
    derivs,     \* the registration derivatives present for the registration participant
    subjects,   \* self.subjects: the participants of the object with their sessions, in order
    fs,         \* the output files that exist on disk (a set of paths)
    cls,        \* the class under use: which orchestrator the caller instantiated
    last,       \* the record of the last call made: arguments, outcome, external invocations
    prev,       \* what the call before the last one was, when the last call repeated its job
    ncalls      \* number of calls made so far

vars == <<layout, derivs, subjects, fs, cls, last, prev, ncalls>>

\* Number of calls one behaviour makes.
MaxCalls == 3

\* Python's None, and what str() makes of a value.
None == "<None>"

Str(v) == IF v = None THEN "None" ELSE v

Range(s) == {s[i] : i \in DOMAIN s}

\* A dict as a function; d.get(k) is None for a missing key.
EmptyDict == [k \in {} |-> None]

Get(d, k) == IF k \in DOMAIN d THEN d[k] ELSE None

\* dict(a, **b) / a[k] = v for every item of b: b wins on collision.
Overlay(a, b) == [k \in (DOMAIN a) \cup (DOMAIN b) |-> IF k \in DOMAIN b THEN b[k] ELSE a[k]]

(***************************************************************************)
(* data/bids.py: the naming patterns and build_relative_path.              *)
(***************************************************************************)
\* The entities of the three DEFAULT_PATTERNS that the modelled files carry.
EntityKeys == {"subject", "session", "datatype", "acquisition", "space",
               "resolution", "desc", "label", "atlas", "suffix", "extension"}

\* One record per pattern of DEFAULT_PATTERNS: the suffixes and datatypes it
\* admits, its default datatype, and the optional entities it renders, in order.
DEFAULT_PATTERNS ==
    << [suffixes  |-> {"dwi", "dwiref", "epiref", "mask"},
        datatypes |-> {"dwi"}, datatype |-> "dwi",
        optional  |-> <<"acquisition", "space", "resolution", "desc">>],
       [suffixes  |-> {"T1w", "T2w", "FLAIR"},
        datatypes |-> {"anat"}, datatype |-> "anat",
        optional  |-> <<"acquisition", "space", "resolution">>],
       [suffixes  |-> {"dseg"},
        datatypes |-> {"anat", "dwi"}, datatype |-> "anat",
        optional  |-> <<"acquisition", "space", "resolution", "desc", "label", "atlas">>] >>

\* The tag a pattern writes before an entity's value.
EntityTag(k) ==
    CASE k = "acquisition" -> "_acq-"
      [] k = "space"       -> "_space-"
      [] k = "resolution"  -> "_res-"
      [] k = "desc"        -> "_desc-"
      [] k = "label"       -> "_label-"
      [] k = "atlas"       -> "_atlas-"
      [] OTHER             -> "_"

\* pybids drops None and empty values before it matches a pattern.
Has(entities, k) == k \in DOMAIN entities /\ entities[k] # None /\ entities[k] # ""

RECURSIVE RenderOptional(_, _, _)
RenderOptional(entities, keys, i) ==
    IF i > Len(keys) THEN ""
    ELSE (IF Has(entities, keys[i]) THEN EntityTag(keys[i]) \o entities[keys[i]] ELSE "")
         \o RenderOptional(entities, keys, i + 1)

PatternMatches(entities, p) ==
    /\ Has(entities, "subject")
    /\ Has(entities, "suffix") /\ entities["suffix"] \in p.suffixes
    /\ (Has(entities, "datatype") => entities["datatype"] \in p.datatypes)

RenderPattern(entities, p) ==
    LET sub == entities["subject"]
        dt  == IF Has(entities, "datatype") THEN entities["datatype"] ELSE p.datatype
        ses == Has(entities, "session")
        ext == IF Has(entities, "extension") THEN entities["extension"] ELSE ".nii.gz"
    IN  "sub-" \o sub \o (IF ses THEN "/ses-" \o entities["session"] ELSE "")
        \o "/" \o dt \o "/sub-" \o sub
        \o (IF ses THEN "_ses-" \o entities["session"] ELSE "")
        \o RenderOptional(entities, p.optional, 1)
        \o "_" \o entities["suffix"] \o ext

\* bids.layout.writing.build_path(entities, path_patterns, strict=False): the
\* first pattern whose required fields are present renders the path; entities
\* the pattern does not name are dropped; None when no pattern matches.
RECURSIVE BuildPath(_, _, _)
BuildPath(entities, patterns, i) ==
    IF i > Len(patterns) THEN None
    ELSE IF PatternMatches(entities, patterns[i]) THEN RenderPattern(entities, patterns[i])
    ELSE BuildPath(entities, patterns, i + 1)

\* build_relative_path's parse_file_entities: the entities of the files the
\* index holds.  A preprocessed DWI of a session, and the anatomical reference.
DwiEntities(p, ses) ==
    [subject |-> p, session |-> ses, datatype |-> "dwi", space |-> "T1w",
     desc |-> "preproc", suffix |-> "dwi", extension |-> ".nii.gz"]

AnatEntities(p) ==
    [subject |-> p, datatype |-> "anat", desc |-> "preproc", suffix |-> "T1w",
     extension |-> ".nii.gz"]

Participants == {"01", "02"}

AllSessions == {"a", "b"}

SourceEntities ==
    {DwiEntities(p, ses) : p \in Participants, ses \in AllSessions}
        \cup {AnatEntities(p) : p \in Participants}

\* The paths of the source files, each with its entities (computed once).
SourceFiles == {<<BuildPath(e, DEFAULT_PATTERNS, 1), e>> : e \in SourceEntities}

ParseFileEntities(source) == (CHOOSE f \in SourceFiles : f[1] = source)[2]

IsSource(source) == \E f \in SourceFiles : f[1] = source

\* build_relative_path(source, replacements): the parsed entities of source
\* overlaid with replacements, rendered by the first matching pattern.
\* The entity mapping build_relative_path hands to build_path:
\* source_entities after the loop "source_entities[key] = value".
ReplacedEntitiesMutant(source_entities, replacements) == Overlay(replacements, source_entities)

ReplacedEntities(source_entities, replacements) == Overlay(source_entities, replacements)

BuildRelativePath(source, replacements) ==
    BuildPath(ReplacedEntities(ParseFileEntities(source), replacements), DEFAULT_PATTERNS, 1)

\* The dictionaries build_relative_path touches, as they are when it returns:
\* the loop assigns into source_entities, the fresh mapping
\* parse_file_entities returned, and only reads replacements.
BuildRelativePathObjects(source, replacements) ==
    [source_entities |-> ReplacedEntities(ParseFileEntities(source), replacements),
     replacements    |-> replacements]

\* The files of the index, by participant and session (computed once).
Pairs == Participants \X AllSessions

DwiFiles == [pr \in Pairs |-> BuildPath(DwiEntities(pr[1], pr[2]), DEFAULT_PATTERNS, 1)] @@ <<>>

DwiPath(p, ses) == DwiFiles[<<p, ses>>]

AnatFiles == [p \in Participants |-> BuildPath(AnatEntities(p), DEFAULT_PATTERNS, 1)] @@ <<>>

AnatPath(p) == AnatFiles[p]

(***************************************************************************)
(* tensors/utils.py: the static tables of the tensor estimation.           *)
(***************************************************************************)
TENSOR_DERIVED_ENTITIES == [suffix |-> "dwiref", resolution |-> "dwi"]

\* TENSOR_DERIVED_METRICS: the declared metrics of every tensor type, in
\* order.  diffusion_tensor is a dict there: iterating it and testing
\* membership in it go over its keys.
TENSOR_DERIVED_METRICS ==
    [diffusion_tensor   |-> <<"fa", "adc", "ad", "rd", "cl", "cs", "cp", "value", "vector">>,
     restore_tensor     |-> <<"fa", "ga", "rgb", "md", "ad", "rd", "mode", "evec", "eval",
                              "tensor">>,
     diffusion_kurtosis |-> <<"fa", "ga", "rgb", "md", "ad", "rd", "mode", "evec", "eval",
                              "mk", "ak", "rk", "dt_tensor", "dk_tensor">>]

\* The values of the diffusion_tensor dict (the descriptions the mrtrix variant uses).
DiffusionTensorDesc ==
    [fa |-> "fa", adc |-> "md", ad |-> "ad", rd |-> "rd", cl |-> "cl", cs |-> "cs",
     cp |-> "cp", value |-> "evec", vector |-> "eval"]

KWARGS_MAPPING ==
    [coreg_dwi_image      |-> "input_files",
     coreg_dwi_bval       |-> "bvalues_files",
     coreg_dwi_bvec       |-> "bvectors_files",
     coreg_dwi_brain_mask |-> "mask_files"]

(***************************************************************************)
(* tensors/tensor_estimation.py and tensors/tensor_estimation_mrtrix.py.   *)
(***************************************************************************)
Variants == {"dipy", "mrtrix"}

\* Tensor types of which two share an acquisition code.
TensorTypesSharedAcq(variant) ==
    IF variant = "dipy"
    THEN [diffusion_tensor   |-> [acq |-> "dt", fit_method |-> "WLS"],
          diffusion_kurtosis |-> [acq |-> "dk", fit_method |-> "WLS"],
          restore_tensor     |-> [acq |-> "dt", fit_method |-> "restore"]]
    ELSE [diffusion_tensor   |-> [acq |-> "dt", fit_method |-> "WLS"]]

\* TENSOR_TYPES of the class: three types in the dipy variant, one in the mrtrix variant.
TENSOR_TYPES(variant) ==
    IF variant = "dipy"
    THEN [diffusion_tensor   |-> [acq |-> "dt", fit_method |-> "WLS"],
          diffusion_kurtosis |-> [acq |-> "dk", fit_method |-> "WLS"],
          restore_tensor     |-> [acq |-> "rt", fit_method |-> "restore"]]
    ELSE [diffusion_tensor   |-> [acq |-> "dt", fit_method |-> "WLS"]]

METRICS == TENSOR_DERIVED_METRICS

\* validate_tensor_type: the parameter record of a registered type; raises otherwise.
ValidateTensorTypeMutant(variant, tensor_type) ==
    IF tensor_type # "diffusion_tensor"
    THEN [raised |-> TRUE, value |-> None]
    ELSE [raised |-> FALSE, value |-> Get(TENSOR_TYPES(variant), tensor_type)]

ValidateTensorType(variant, tensor_type) ==
    IF tensor_type \notin DOMAIN TENSOR_TYPES(variant)
    THEN [raised |-> TRUE, value |-> None]
    ELSE [raised |-> FALSE, value |-> Get(TENSOR_TYPES(variant), tensor_type)]

\* validate_requested_output: whether output is a declared metric of the
\* tensor type; warns (INVALID_OUTPUT) when it is not.
ValidateRequestedOutputMutant(tensor_type, output) ==
    IF output \in Range(METRICS[tensor_type]) /\ output # "ad"
    THEN [valid |-> TRUE, warned |-> FALSE]
    ELSE [valid |-> FALSE, warned |-> TRUE]

ValidateRequestedOutput(tensor_type, output) ==
    IF output \in Range(METRICS[tensor_type])
    THEN [valid |-> TRUE, warned |-> FALSE]
    ELSE [valid |-> FALSE, warned |-> TRUE]

\* output.split("_") and str.capitalize() on the metric names of the tables.
SplitUnderscore(output) ==
    CASE output = "dt_tensor" -> <<"dt", "tensor">>
      [] output = "dk_tensor" -> <<"dk", "tensor">>
      [] OTHER                -> <<output>>

Capitalize(word) == IF word = "tensor" THEN "Tensor" ELSE word

OutputDesc(output) ==
    LET output_parts == SplitUnderscore(output)
    IN  IF Len(output_parts) > 1
        THEN output_parts[1] \o Capitalize(output_parts[2])
        ELSE output

\* data_grabber.build_path(source, entities): the path builder of the file index.
DataGrabberBuildPath(source, entities) == BuildRelativePath(source, entities)

\* The path build_output_dictionary plans for one output:
\* str(build_path(source, {"acquisition": acq, "desc": output_desc, **TENSOR_ENTITIES})).
PlanOutputPathMutant(source, acq, output_desc) ==
    Str(DataGrabberBuildPath(source,
            Overlay([acquisition |-> output_desc, desc |-> acq], TENSOR_DERIVED_ENTITIES)))

PlanOutputPath(source, acq, output_desc) ==
    Str(DataGrabberBuildPath(source,
            Overlay([acquisition |-> acq, desc |-> output_desc], TENSOR_DERIVED_ENTITIES)))

\* The descriptions and acquisition codes of the tables, and the planned path
\* of every (source, acquisition, description) (computed once).
AllDescs ==
    UNION {{OutputDesc(m) : m \in Range(TENSOR_DERIVED_METRICS[t])} :
               t \in DOMAIN TENSOR_DERIVED_METRICS}
        \cup Range(DiffusionTensorDesc)

AllAcqs == {TENSOR_TYPES("dipy")[t].acq : t \in DOMAIN TENSOR_TYPES("dipy")}

PlannedPaths ==
    [k \in Range(DwiFiles) \X AllAcqs \X AllDescs |-> PlanOutputPath(k[1], k[2], k[3])] @@ <<>>

TensorOutputPath(variant, source, tensor_type, output_desc) ==
    PlannedPaths[<<source, TENSOR_TYPES(variant)[tensor_type].acq, output_desc>>]

\* The loop of build_output_dictionary (dipy variant) from the i-th requested
\* output on: acc holds the target mapping and the warnings emitted so far.
RECURSIVE BuildOutputLoop(_, _, _, _, _)
BuildOutputLoop(source, tensor_type, outputs, i, acc) ==
    IF i > Len(outputs) THEN acc
    ELSE LET output == outputs[i]
             check  == ValidateRequestedOutput(tensor_type, output)
             next   == IF check.valid
                       THEN [acc EXCEPT !.target = Overlay(acc.target,
                                [k \in {"out_" \o output} |->
                                    TensorOutputPath("dipy", source, tensor_type,
                                                     OutputDesc(output))])]
                       ELSE [acc EXCEPT !.warnings = Append(acc.warnings, output)]
         IN  BuildOutputLoop(source, tensor_type, outputs, i + 1, next)

\* The same loop in the mrtrix variant: it iterates outputs.items(), keys the
\* target by the metric itself and takes the description from the dict.
RECURSIVE BuildOutputLoopMrtrix(_, _, _, _, _)
BuildOutputLoopMrtrix(source, tensor_type, outputs, i, acc) ==
    IF i > Len(outputs) THEN acc
    ELSE LET output == outputs[i]
             check  == ValidateRequestedOutput(tensor_type, output)
             next   == IF check.valid
                       THEN [acc EXCEPT !.target = Overlay(acc.target,
                                [k \in {output} |->
                                    TensorOutputPath("mrtrix", source, tensor_type,
                                                     DiffusionTensorDesc[output])])]
                       ELSE [acc EXCEPT !.warnings = Append(acc.warnings, output)]
         IN  BuildOutputLoopMrtrix(source, tensor_type, outputs, i + 1, next)

\* None where a list is expected (a list no caller passes).
NoneList == <<None>>

\* A truthiness test under which only None is falsy.
FalsyMutant(v) == v = NoneList

\* A requested list is falsy when it is None or empty.
Falsy(v) == v = NoneList \/ v = <<>>

\* build_output_dictionary(source, tensor_type, outputs): the planned output
\* mapping and the warnings emitted.  In the mrtrix variant a requested list
\* has no items(): the call raises AttributeError.
BuildOutputDictionary(variant, source, tensor_type, outputs) ==
    LET requested == IF Falsy(outputs) THEN METRICS[tensor_type] ELSE outputs
        start     == [raised |-> FALSE, target |-> EmptyDict, warnings |-> <<>>]
    IN  IF variant = "dipy"
        THEN BuildOutputLoop(source, tensor_type, requested, 1, start)
        ELSE IF Falsy(outputs)
             THEN BuildOutputLoopMrtrix(source, tensor_type, requested, 1, start)
             ELSE [start EXCEPT !.raised = TRUE]

\* map_kwargs_to_workflow: every key renamed by TENSOR_FITTING_KWARGS when it
\* is one of its keys, every value converted by str().
MapKwargsToWorkflow(inputs) ==
    LET kwarg(key) == IF Get(KWARGS_MAPPING, key) # None THEN KWARGS_MAPPING[key] ELSE key
    IN  [k \in {kwarg(key) : key \in DOMAIN inputs} |->
            Str(inputs[CHOOSE key \in DOMAIN inputs : kwarg(key) = k])]

(***************************************************************************)
(* The file index (data_grabber.layout) and the reconstruction workflows.  *)
(***************************************************************************)
\* The state of the input set of one (participant, session): every file
\* present and readable, one required file missing, the image unreadable by
\* the workflow, or no DWI at all.
InputStates == {"complete", "no_bval", "no_bvec", "no_mask", "unreadable", "absent"}

BvalFiles ==
    [pr \in Pairs |-> BuildPath(Overlay(DwiEntities(pr[1], pr[2]), [extension |-> ".bval"]),
                                DEFAULT_PATTERNS, 1)] @@ <<>>

BvecFiles ==
    [pr \in Pairs |-> BuildPath(Overlay(DwiEntities(pr[1], pr[2]), [extension |-> ".bvec"]),
                                DEFAULT_PATTERNS, 1)] @@ <<>>

\* build_path(dwi, {"desc": "brain", "suffix": "mask"})
MaskFiles ==
    [pr \in Pairs |-> DataGrabberBuildPath(DwiFiles[pr], [desc |-> "brain", suffix |-> "mask"])]
        @@ <<>>

BvalPath(p, ses) == BvalFiles[<<p, ses>>]

BvecPath(p, ses) == BvecFiles[<<p, ses>>]

MaskPath(p, ses) == MaskFiles[<<p, ses>>]

\* The input files on disk under a layout.
InputFilesOnDisk(lay) ==
    UNION { IF lay[pr] = "absent" THEN {}
            ELSE {DwiPath(pr[1], pr[2])}
                 \cup (IF lay[pr] # "no_bval" THEN {BvalPath(pr[1], pr[2])} ELSE {})
                 \cup (IF lay[pr] # "no_bvec" THEN {BvecPath(pr[1], pr[2])} ELSE {})
                 \cup (IF lay[pr] # "no_mask" THEN {MaskPath(pr[1], pr[2])} ELSE {})
          : pr \in DOMAIN lay }

Unreadable(lay) == {DwiPath(pr[1], pr[2]) : pr \in {q \in DOMAIN lay : lay[q] = "unreadable"}}

\* layout.get_bval / get_bvec: the gradient file of a DWI, or None.
GetBval(lay, p, ses) == IF lay[<<p, ses>>] # "no_bval" THEN BvalPath(p, ses) ELSE None

GetBvec(lay, p, ses) == IF lay[<<p, ses>>] # "no_bvec" THEN BvecPath(p, ses) ELSE None

\* get_subject_dwi(participant_label, session): one input set per DWI the
\* index holds for the session.  The mask is a built path: it is not looked up.
GetSubjectDwi(lay, p, ses) ==
    IF <<p, ses>> \notin DOMAIN lay \/ lay[<<p, ses>>] = "absent" THEN <<>>
    ELSE << [dwi  |-> DwiPath(p, ses),
             bval |-> GetBval(lay, p, ses),
             bvec |-> GetBvec(lay, p, ses),
             mask |-> MaskPath(p, ses)] >>

\* The input sets of the mrtrix variant come from DmriprepManager (another
\* package): they hold the keys its run_single_input reads, "dwi" for the
\* planning and the keys of KWARGS_MAPPING for the command line.
GetSubjectDwiMrtrix(lay, p, ses) ==
    IF <<p, ses>> \notin DOMAIN lay \/ lay[<<p, ses>>] = "absent" THEN <<>>
    ELSE << [dwi                  |-> DwiPath(p, ses),
             coreg_dwi_image      |-> DwiPath(p, ses),
             coreg_dwi_bval       |-> GetBval(lay, p, ses),
             coreg_dwi_bvec       |-> GetBvec(lay, p, ses),
             coreg_dwi_brain_mask |-> MaskPath(p, ses)] >>

\* inputs.get("dwi"): the image an input set is built around.
InputDwi(inputs) == Get(inputs, "dwi")

\* The reconstruction (ReconstDtiFlow / ReconstDkiFlow, or the dwi2tensor
\* command line): it succeeds when every file its arguments name is on disk
\* and readable, and then writes every output it was given.
WorkflowSucceeds(lay, workflow_kwargs) ==
    LET named == {workflow_kwargs[k] : k \in (DOMAIN workflow_kwargs) \ {"fit_method"}}
    IN  /\ named \subseteq InputFilesOnDisk(lay)
        /\ named \cap Unreadable(lay) = {}

\* build_tensor_fitting_cmd: TENSOR_FITTING_CMD.format(**kwargs) needs these keys.
CmdKeys == {"input_files", "bvectors_files", "bvalues_files"}

\* The existence gate of run_single_input: whether the workflow is to run.
MustRunMutant(outputs, files, force) == TRUE

\* A gate that runs the workflow only when no planned output exists.
MustRunNoneExists(outputs, files, force) ==
    (\A k \in DOMAIN outputs : outputs[k] \notin files) \/ force

MustRun(outputs, files, force) ==
    LET outputs_exist == [k \in DOMAIN outputs |-> (outputs[k] \in files)]
    IN  (~ (\A k \in DOMAIN outputs : outputs_exist[k])) \/ force

\* The outcome of a call, before anything happened:
\*   status   "returned" or "raised";  error: the exception raised
\*   result   the mapping returned (when status is "returned")
\*   planned  the output mapping, once build_output_dictionary has built it
\*   invoked  the number of invocations of an external computation
\*   given    the output paths handed to the external computations
\*   written  the files the external computations wrote
\*   log      the steps the job went through, in order
\*   objects  the dictionaries the call touched, as they are when it returns
\*   skipped  the targets an existence gate left alone
NoOutcome ==
    [status |-> "returned", error |-> None, result |-> EmptyDict, planned |-> EmptyDict,
     invoked |-> 0, given |-> {}, written |-> {}, warnings |-> <<>>, kwargs |-> EmptyDict,
     log |-> <<>>, attempted |-> <<>>, failed |-> {}, collected |-> EmptyDict,
     objects |-> EmptyDict, skipped |-> {}]

\* run_single_input(inputs, tensor_type, out_metrics, force) on a disk holding
\* files: the outcome of the call.
RunSingleInput(variant, lay, files, inputs, tensor_type, out_metrics, force) ==
    LET tensor_kwargs == ValidateTensorType(variant, tensor_type)
        base == NoOutcome
    IN  IF tensor_kwargs.raised
        THEN [base EXCEPT !.status = "raised", !.error = "NotImplementedError"]
        ELSE
        LET built == BuildOutputDictionary(variant, InputDwi(inputs), tensor_type, out_metrics)
        IN  IF built.raised
            THEN [base EXCEPT !.status = "raised", !.error = "AttributeError",
                              !.log = <<"validated">>]
            ELSE
            LET outputs == built.target
                mapped  == MapKwargsToWorkflow(inputs)
                workflow_kwargs ==
                    IF "fit_method" \in DOMAIN tensor_kwargs.value
                    THEN Overlay(mapped, [fit_method |-> tensor_kwargs.value.fit_method])
                    ELSE mapped
                planned == [base EXCEPT !.planned = outputs, !.warnings = built.warnings,
                                        !.kwargs = workflow_kwargs,
                                        !.log = <<"validated", "planned">>]
                ok == WorkflowSucceeds(lay, workflow_kwargs)
            IN  IF ~ MustRun(outputs, files, force)
                THEN [planned EXCEPT !.result = outputs,
                                     !.log = Append(planned.log, "skipped")]
                ELSE IF variant = "dipy"
                THEN \* runner = wf(force=force); runner.run(**workflow_kwargs, **outputs)
                     IF ok
                     THEN [planned EXCEPT !.result = outputs, !.invoked = 1,
                                          !.given = Range(outputs),
                                          !.written = Range(outputs),
                                          !.log = planned.log \o <<"executing", "done">>]
                     ELSE [planned EXCEPT !.status = "raised", !.error = "ReconstructionError",
                                          !.invoked = 1, !.given = Range(outputs),
                                          !.log = Append(planned.log, "executing")]
                ELSE \* os.system(build_tensor_fitting_cmd(workflow_kwargs, outputs))
                     IF ~ (CmdKeys \subseteq DOMAIN workflow_kwargs)
                     THEN [planned EXCEPT !.status = "raised", !.error = "KeyError"]
                     ELSE [planned EXCEPT !.result = outputs, !.invoked = 1,
                                          !.given = Range(outputs),
                                          !.written = IF ok THEN Range(outputs) ELSE {},
                                          !.log = planned.log \o <<"executing", "done">>]

\* None where a dictionary is expected.
NoneDict == [k \in {"<NoneDict>"} |-> None]

\* An argument that may be None, a string or a list.
NoneArg == [kind |-> "none", items |-> <<>>]

StrArg(s) == [kind |-> "str", items |-> <<s>>]

ListArg(l) == [kind |-> "list", items |-> l]

ArgFalsy(a) == a.kind = "none" \/ a.items = <<>> \/ (a.kind = "str" /\ a.items = <<"">>)

\* A list or None as the argument it makes.
AsArg(l) == IF l = NoneList THEN NoneArg ELSE ListArg(l)

\* The registry: a sequence of [label, sessions], sessions a list or None.
SubjectsKeys(subs) == [i \in DOMAIN subs |-> subs[i].label]

SubjectsGet(subs, label) ==
    IF \E i \in DOMAIN subs : subs[i].label = label
    THEN subs[CHOOSE i \in DOMAIN subs : subs[i].label = label].sessions
    ELSE NoneList

\* data_grabber.subjects: the participants the index holds with their sessions.
HeldSessions(lay, p) ==
    LET held(ses) == <<p, ses>> \in DOMAIN lay /\ lay[<<p, ses>>] # "absent"
    IN  (IF held("a") THEN <<"a">> ELSE <<>>) \o (IF held("b") THEN <<"b">> ELSE <<>>)

DataGrabberSubjects(lay) ==
    LET entry(p) == IF HeldSessions(lay, p) # <<>>
                    THEN << [label |-> p, sessions |-> HeldSessions(lay, p)] >>
                    ELSE <<>>
    IN  entry("01") \o entry("02")

\* get_subjects(participant_labels).
GetSubjects(grabbed, participant_labels) ==
    IF ArgFalsy(participant_labels) THEN grabbed
    ELSE [i \in DOMAIN participant_labels.items |->
            [label    |-> participant_labels.items[i],
             sessions |-> SubjectsGet(grabbed, participant_labels.items[i])]]

\* list(self.TENSOR_TYPES.keys())
TensorTypeKeys(variant) ==
    IF variant = "dipy" THEN <<"diffusion_tensor", "diffusion_kurtosis", "restore_tensor">>
    ELSE <<"diffusion_tensor">>

\* validate_single_subject_run(participant_label, session, tensor_type, out_metrics).
ValidateSingleSubjectRun(variant, subs, participant_label, session, tensor_type, out_metrics) ==
    IF participant_label \notin Range(SubjectsKeys(subs))
    THEN [raised |-> TRUE, tensor_types |-> <<>>, sessions |-> NoneList,
          out_metrics |-> NoneList]
    ELSE [raised       |-> FALSE,
          tensor_types |-> IF tensor_type.kind = "str" THEN tensor_type.items
                           ELSE IF ArgFalsy(tensor_type) THEN TensorTypeKeys(variant)
                           ELSE tensor_type.items,
          sessions     |-> IF ArgFalsy(session) THEN SubjectsGet(subs, participant_label)
                           ELSE session.items,
          out_metrics  |-> IF out_metrics.kind = "none" THEN NoneList ELSE out_metrics.items]

\* The one element of a singleton set: a value computed once and then named.
The(S) == CHOOSE x \in S : TRUE

\* What a loop over jobs has done so far.
NoProgress(files) ==
    [status |-> "returned", error |-> None, files |-> files, invoked |-> 0, given |-> {},
     written |-> {}, warnings |-> <<>>, attempted |-> <<>>, failed |-> {}, results |-> <<>>,
     log |-> <<>>]

\* A loop whose next step starts before the step before it has finished.
ProgressMutant(acc, key, out, results) ==
    [status    |-> out.status,
     error     |-> out.error,
     files     |-> acc.files \cup out.written,
     invoked   |-> acc.invoked + out.invoked,
     given     |-> acc.given \cup out.given,
     written   |-> acc.written \cup out.written,
     warnings  |-> acc.warnings \o out.warnings,
     attempted |-> acc.attempted,
     failed    |-> acc.failed,
     results   |-> IF out.status = "returned" THEN Append(acc.results, <<key, results>>)
                   ELSE acc.results,
     log       |-> IF acc.log # <<>> /\ out.log # <<>>
                   THEN SubSeq(acc.log, 1, Len(acc.log) - 1)
                        \o << Head(out.log), acc.log[Len(acc.log)] >> \o Tail(out.log)
                   ELSE acc.log \o out.log]

\* The progress of a loop after one more step, which returned out under key:
\* the step ran after everything before it.
Progress(acc, key, out, results) ==
    [status    |-> out.status,
     error     |-> out.error,
     files     |-> acc.files \cup out.written,
     invoked   |-> acc.invoked + out.invoked,
     given     |-> acc.given \cup out.given,
     written   |-> acc.written \cup out.written,
     warnings  |-> acc.warnings \o out.warnings,
     attempted |-> acc.attempted,
     failed    |-> acc.failed,
     results   |-> IF out.status = "returned" THEN Append(acc.results, <<key, results>>)
                   ELSE acc.results,
     log       |-> acc.log \o out.log]

\* The loop of run_single_session over tensor types and input sets, from job i.
RECURSIVE RunJobs(_, _, _, _, _, _, _)
RunJobs(variant, lay, jobs, out_metrics, force, i, acc) ==
    IF i > Len(jobs) \/ acc.status = "raised" THEN acc
    ELSE The({RunJobs(variant, lay, jobs, out_metrics, force, i + 1, next) :
                next \in {Progress(acc, jobs[i][1], out, out.result) :
                            out \in {RunSingleInput(variant, lay, acc.files, jobs[i][2],
                                                    jobs[i][1], out_metrics, force)}}})

RECURSIVE JobsOf(_, _, _)
JobsOf(tensor_types, dwis, i) ==
    IF i > Len(tensor_types) THEN <<>>
    ELSE [j \in DOMAIN dwis |-> <<tensor_types[i], dwis[j]>>] \o JobsOf(tensor_types, dwis, i + 1)

\* result[tensor_type]: the outputs of the jobs of the tensor type, in order.
ResultsOf(results, tensor_type) ==
    LET mine == SelectSeq(results, LAMBDA r : r[1] = tensor_type)
    IN  [j \in DOMAIN mine |-> mine[j][2]]

\* run_single_session(participant_label, session, tensor_types, out_metrics, force):
\* the input sets are located first, then result[tensor_type] is the list of
\* the outputs of every input set.
RunSingleSession(variant, lay, files, participant_label, session, tensor_types, out_metrics, force) ==
    LET dwis == IF variant = "dipy" THEN GetSubjectDwi(lay, participant_label, session)
                ELSE GetSubjectDwiMrtrix(lay, participant_label, session)
    IN  The({[done EXCEPT !.results = [tensor_type \in Range(tensor_types) |->
                                          ResultsOf(done.results, tensor_type)]] :
               done \in {RunJobs(variant, lay, JobsOf(tensor_types, dwis, 1), out_metrics,
                                 force, 1,
                                 [NoProgress(files) EXCEPT !.log = <<"inputs_resolved">>])}})

\* The loop of run_single_subject over sessions, from session i.
RECURSIVE RunSessions(_, _, _, _, _, _, _, _, _)
RunSessions(variant, lay, participant_label, sessions, tensor_types, out_metrics, force, i, acc) ==
    IF i > Len(sessions) \/ acc.status = "raised" THEN acc
    ELSE The({RunSessions(variant, lay, participant_label, sessions, tensor_types,
                          out_metrics, force, i + 1, next) :
                next \in {Progress(acc, sessions[i], out, out.results) :
                            out \in {RunSingleSession(variant, lay, acc.files,
                                                      participant_label, sessions[i],
                                                      tensor_types, out_metrics, force)}}})

\* A sequence of <<key, value>> as the dictionary it fills (later keys win).
AsDict(pairs) ==
    [k \in {pairs[i][1] : i \in DOMAIN pairs} |->
        pairs[CHOOSE i \in DOMAIN pairs :
                 pairs[i][1] = k /\ \A j \in DOMAIN pairs : pairs[j][1] = k => j <= i][2]]

\* run_single_subject(participant_label, session, tensor_type, out_metrics, force).
RunSingleSubject(variant, lay, files, subs, participant_label, session, tensor_type, out_metrics, force) ==
    The({IF valid.raised
         THEN [NoProgress(files) EXCEPT !.status = "raised", !.error = "ValueError",
                                        !.results = EmptyDict]
         ELSE IF valid.sessions = NoneList
         THEN \* for session in None
              [NoProgress(files) EXCEPT !.status = "raised", !.error = "TypeError",
                                        !.results = EmptyDict]
         ELSE The({[done EXCEPT !.results = AsDict(done.results)] :
                     done \in {RunSessions(variant, lay, participant_label, valid.sessions,
                                           valid.tensor_types, valid.out_metrics, force, 1,
                                           NoProgress(files))}}) :
         valid \in {ValidateSingleSubjectRun(variant, subs, participant_label, session,
                                             tensor_type, out_metrics)}})

\* The labels run_dataset iterates: [participant_label] for a string and for
\* a list alike (the list itself is then the one label), every key otherwise.
DatasetLabels(subs, participant_label) ==
    IF ~ ArgFalsy(participant_label)
    THEN IF participant_label.kind = "str"
         THEN << [hashable |-> TRUE, label |-> participant_label.items[1]] >>
         ELSE << [hashable |-> FALSE, label |-> None] >>
    ELSE [i \in DOMAIN SubjectsKeys(subs) |-> [hashable |-> TRUE, label |-> SubjectsKeys(subs)[i]]]

\* Whether run_dataset goes on to the next subject after an error: the dipy
\* variant has no handler, the mrtrix variant continues on TypeError only.
Continues(variant, error) == variant = "mrtrix" /\ error = "TypeError"

\* The progress of run_dataset after the job of one subject: an error the
\* loop continues on leaves no result and does not end the run.
DatasetProgress(variant, acc, label, out) ==
    LET caught == out.status = "raised" /\ Continues(variant, out.error)
        step   == Progress(acc, label, out, out.results)
    IN  [step EXCEPT !.status = IF caught THEN "returned" ELSE out.status,
                     !.error = IF caught THEN None ELSE out.error,
                     !.files = out.files,
                     !.attempted = Append(acc.attempted, label),
                     !.failed = IF out.status = "raised" THEN acc.failed \cup {label}
                                ELSE acc.failed]

\* The loop of run_dataset over the labels, from label i.
RECURSIVE RunSubjects(_, _, _, _, _, _, _, _, _)
RunSubjects(variant, lay, subs, labels, tensor_type, out_metrics, force, i, acc) ==
    IF i > Len(labels) \/ acc.status = "raised" THEN acc
    ELSE IF ~ labels[i].hashable
    THEN \* self.subjects.get(<a list>): TypeError, unhashable type
         RunSubjects(variant, lay, subs, labels, tensor_type, out_metrics, force, i + 1,
                     IF Continues(variant, "TypeError") THEN acc
                     ELSE [acc EXCEPT !.status = "raised", !.error = "TypeError"])
    ELSE The({RunSubjects(variant, lay, subs, labels, tensor_type, out_metrics, force, i + 1,
                          next) :
                next \in {DatasetProgress(variant, acc, labels[i].label, out) :
                            out \in {RunSingleSubject(variant, lay, acc.files, subs,
                                         labels[i].label,
                                         AsArg(SubjectsGet(subs, labels[i].label)),
                                         tensor_type, out_metrics, force)}}})

\* run_dataset(participant_label, tensor_type, out_metrics, force): fills
\* tensor_metrics and returns nothing.
RunDataset(variant, lay, files, subs, participant_label, tensor_type, out_metrics, force) ==
    The({[NoOutcome EXCEPT !.status = done.status, !.error = done.error,
                           !.result = NoneDict,
                           !.invoked = done.invoked, !.given = done.given,
                           !.written = done.written, !.warnings = done.warnings,
                           !.attempted = done.attempted, !.failed = done.failed,
                           !.collected = AsDict(done.results), !.log = done.log] :
           done \in {RunSubjects(variant, lay, subs,
                                 DatasetLabels(subs, participant_label), tensor_type,
                                 out_metrics, force, 1, NoProgress(files))}})

(***************************************************************************)
(* registrations/utils.py and registrations/registrations.py:              *)
(* NativeRegistration, the registration of one participant.                *)
(***************************************************************************)
ANAT_REG_KEYS == <<"mni2native", "anat_reference", "probseg">>

DEFAULT_PARCELLATION_NAMING == [space |-> "T1w", suffix |-> "dseg", desc |-> ""]

\* PROBSEG_THRESHOLD = 0.01, in thousandths.
PROBSEG_THRESHOLD == 10

\* None where a number is expected.
NoneNumber == 0 - 1

\* The participant of the registration object and the sessions it has
\* (self.participant_label, self.derivatives.sessions).
RegParticipant == "01"

RegSessions == <<"a", "b">>

\* The subsequences of a sequence (what an index may hold of a list of files).
RECURSIVE SubSeqs(_)
SubSeqs(s) ==
    IF s = <<>> THEN {<<>>}
    ELSE LET rest == SubSeqs(Tail(s)) IN rest \cup {<<Head(s)>> \o r : r \in rest}

\* The derivative files the index may hold for the participant, in the order
\* the index returns them: each a path with its entities.
IndexCandidates ==
    << [path |-> "sub-01/anat/sub-01_from-MNI152NLin2009cAsym_to-T1w_mode-image_xfm.h5",
        entities |-> [subject |-> "01", from |-> "MNI152NLin2009cAsym", to |-> "T1w",
                      mode |-> "image", suffix |-> "xfm", extension |-> ".h5"]],
       [path |-> "sub-01/anat/sub-01_from-T1w_to-MNI152NLin2009cAsym_mode-image_xfm.h5",
        entities |-> [subject |-> "01", from |-> "T1w", to |-> "MNI152NLin2009cAsym",
                      mode |-> "image", suffix |-> "xfm", extension |-> ".h5"]],
       [path |-> AnatPath("01"), entities |-> AnatEntities("01")],
       [path |-> "sub-01/anat/sub-01_label-GM_probseg.nii.gz",
        entities |-> [subject |-> "01", datatype |-> "anat", label |-> "GM",
                      suffix |-> "probseg", extension |-> ".nii.gz"]],
       [path |-> "sub-01/anat/sub-01_run-2_from-MNI152NLin2009cAsym_to-T1w_mode-image_xfm.h5",
        entities |-> [subject |-> "01", run |-> "2", from |-> "MNI152NLin2009cAsym",
                      to |-> "T1w", mode |-> "image", suffix |-> "xfm", extension |-> ".h5"]],
       [path |-> "sub-01/anat/sub-01_acq-hires_desc-preproc_T1w.nii.gz",
        entities |-> [subject |-> "01", acquisition |-> "hires", datatype |-> "anat",
                      desc |-> "preproc", suffix |-> "T1w", extension |-> ".nii.gz"]],
       [path |-> "sub-01/anat/sub-01_space-MNI152NLin2009cAsym_label-GM_probseg.nii.gz",
        entities |-> [subject |-> "01", datatype |-> "anat", space |-> "MNI152NLin2009cAsym",
                      label |-> "GM", suffix |-> "probseg", extension |-> ".nii.gz"]] >>

\* The preprocessed DWIs the layout holds, as files of the index.
RECURSIVE DwiIndexFrom(_, _)
DwiIndexFrom(lay, i) ==
    IF i > Len(RegSessions) THEN <<>>
    ELSE LET pr == <<RegParticipant, RegSessions[i]>>
         IN  (IF pr \in DOMAIN lay /\ lay[pr] # "absent"
              THEN << [path |-> DwiPath(pr[1], pr[2]), entities |-> DwiEntities(pr[1], pr[2])] >>
              ELSE <<>>) \o DwiIndexFrom(lay, i + 1)

DwiIndex(lay) == DwiIndexFrom(lay, 1)

\* BIDSLayout.get(**query): the files whose entities pass every filter, in
\* index order.  A filter of None asks for files without the entity.
Passes(file, query) ==
    \A k \in DOMAIN query :
        IF query[k] = None THEN k \notin DOMAIN file.entities
        ELSE Get(file.entities, k) = query[k]

LayoutGet(der, lay, query) ==
    LET test(file) == Passes(file, query) IN SelectSeq(der \o DwiIndex(lay), test)

\* NativeParcellation.QUERIES (parcellations/parcellations.py), which the named
\* queries of the registration resolve to as well.
QUERIES ==
    [mni2native     |-> [from |-> "MNI152NLin2009cAsym", to |-> "T1w", mode |-> "image",
                         suffix |-> "xfm"],
     native2mni     |-> [from |-> "T1w", to |-> "MNI152NLin2009cAsym", mode |-> "image",
                         suffix |-> "xfm"],
     anat_reference |-> [desc |-> "preproc", suffix |-> "T1w", datatype |-> "anat",
                         space |-> None, extension |-> ".nii.gz"],
     dwi_reference  |-> [desc |-> "preproc", datatype |-> "dwi", suffix |-> "dwi",
                         space |-> "T1w", extension |-> ".nii.gz"],
     probseg        |-> [suffix |-> "probseg"]]

\* Analysis.get_derivative: the first file the index holds for the named
\* query (of the session, when one is given), or None.
GetDerivative(der, lay, session, sub_key) ==
    LET name   == IF sub_key = "coreg_dwi_image" THEN "dwi_reference" ELSE sub_key
        query  == Overlay([subject |-> RegParticipant], QUERIES[name])
        result == LayoutGet(der, lay,
                            IF session = None THEN query
                            ELSE Overlay(query, [session |-> session]))
    IN  IF Len(result) > 0 THEN result[1].path ELSE None

\* collect_requirements: [get_derivative(**QUERIES.get(key)) for key in ANAT_REG_KEYS].
CollectRequirements(der, lay) ==
    [i \in DOMAIN ANAT_REG_KEYS |-> GetDerivative(der, lay, None, ANAT_REG_KEYS[i])]

\* apply_bids_filters(original, replacements): the replacements laid over a
\* copy of the original when they are a dictionary.
ApplyBidsFiltersMutant(original, replacements) ==
    IF replacements # NoneDict THEN Overlay(replacements, original) ELSE original

ApplyBidsFilters(original, replacements) ==
    IF replacements # NoneDict THEN Overlay(original, replacements) ELSE original

\* The dictionaries apply_bids_filters touches, as they are when it returns:
\* combined_filters is original.copy(), a dictionary of its own, and the
\* loop assigns into it alone.
ApplyBidsFiltersObjects(original, replacements) ==
    [original         |-> original,
     combined_filters |-> ApplyBidsFilters(original, replacements),
     replacements     |-> replacements]

TRANSFORMS == <<"mni2native", "native2mni">>

\* Path(result[0].path) if result else None
FirstPathMutant(result) == IF Len(result) = 1 THEN result[1].path ELSE None

FirstPath(result) == IF Len(result) > 0 THEN result[1].path ELSE None

\* NativeParcellation.get_transforms(participant_label, bids_filters).
GetTransforms(der, lay, participant_label, bids_filters) ==
    [transform \in Range(TRANSFORMS) |->
        LET query  == ApplyBidsFilters(
                          Overlay([subject |-> participant_label], QUERIES[transform]),
                          bids_filters)
            result == LayoutGet(der, lay, query)
        IN  FirstPath(result)]

\* NativeParcellation.get_reference(participant_label, reference_type, bids_filters).
GetReference(der, lay, participant_label, reference_type, bids_filters) ==
    LET query  == ApplyBidsFilters(
                      Overlay([subject |-> participant_label],
                              QUERIES[reference_type \o "_reference"]),
                      bids_filters)
        result == LayoutGet(der, lay, query)
    IN  FirstPath(result)

\* str.upper on the tissue names in use.
Upper(s) == CASE s = "gm" -> "GM" [] s = "wm" -> "WM" [] OTHER -> s

\* NativeParcellation.get_probseg(participant_label, tissue_type, bids_filters).
GetProbseg(der, lay, participant_label, tissue_type, bids_filters) ==
    LET query  == ApplyBidsFilters(
                      Overlay([subject |-> participant_label, label |-> Upper(tissue_type)],
                              QUERIES["probseg"]),
                      bids_filters)
        result == LayoutGet(der, lay, query)
    IN  FirstPath(result)

\* The root the relative paths are joined to (self.derivatives.path.parent).
DerivativesRoot == "derivatives/"

\* NativeRegistration.build_output_dictionary(parcellation_scheme, reference,
\* resolution): the whole-brain and gray-matter-cropped paths.
RegOutputPath(parcellation_scheme, reference, resolution, label) ==
    DerivativesRoot \o
        BuildRelativePath(reference,
            Overlay(Overlay([atlas |-> parcellation_scheme, resolution |-> resolution],
                            DEFAULT_PARCELLATION_NAMING),
                    [label |-> label]))

Schemes == {"schaefer400"}

RegPaths ==
    [k \in Schemes \X {f[1] : f \in SourceFiles} \X {"anat", "dwi"} \X {"WholeBrain", "GM"} |->
        RegOutputPath(k[1], k[2], k[3], k[4])] @@ <<>>

RegBuildOutputDictionary(parcellation_scheme, reference, resolution) ==
    [whole_brain |-> RegPaths[<<parcellation_scheme, reference, resolution, "WholeBrain">>],
     gm_cropped  |-> RegPaths[<<parcellation_scheme, reference, resolution, "GM">>]]

\* The masking threshold register_to_anatomical hands to crop_to_probseg:
\* probseg_threshold or self.PROBSEG_THRESHOLD.
MaskingThreshold(probseg_threshold) ==
    IF probseg_threshold = NoneNumber \/ probseg_threshold = 0
    THEN PROBSEG_THRESHOLD ELSE probseg_threshold

\* The routines of the parcellation manager: each writes its target when the
\* target is missing or force is set, and fails on an input it cannot read.
ManagerWrites(target, files, force) == IF target \notin files \/ force THEN {target} ELSE {}

\* register_to_anatomical(parcellation_scheme, probseg_threshold, force).
RegisterToAnatomical(der, lay, files, parcellation_scheme, probseg_threshold, force) ==
    LET req        == CollectRequirements(der, lay)
        mni2native == req[1]
        reference  == req[2]
        gm_probseg == req[3]
    IN  IF reference = None
        THEN \* parse_file_entities(None) in build_relative_path
             [NoOutcome EXCEPT !.status = "raised", !.error = "TypeError"]
        ELSE
        LET outputs == RegBuildOutputDictionary(parcellation_scheme, reference, "anat")
            planned == [NoOutcome EXCEPT !.planned = outputs, !.log = <<"planned">>]
            wrote1  == ManagerWrites(outputs.whole_brain, files, force)
            wrote2  == ManagerWrites(outputs.gm_cropped, files, force)
        IN  IF mni2native = None
            THEN [planned EXCEPT !.status = "raised", !.error = "RegistrationError",
                                 !.invoked = 1, !.given = {outputs.whole_brain},
                                 !.log = <<"planned", "register">>]
            ELSE IF gm_probseg = None
            THEN [planned EXCEPT !.status = "raised", !.error = "RegistrationError",
                                 !.invoked = 2, !.given = Range(outputs), !.written = wrote1,
                                 !.log = <<"planned", "register", "crop">>]
            ELSE [planned EXCEPT !.result = outputs, !.invoked = 2, !.given = Range(outputs),
                                 !.written = wrote1 \cup wrote2,
                                 !.kwargs = [masking_threshold |->
                                                MaskingThreshold(probseg_threshold)],
                                 !.log = <<"planned", "register", "crop">>]

\* The existence gate of register_dwi for one target.
MustResampleMutant(target, files, force) == target \notin files

MustResampleAlways(target, files, force) == TRUE

MustResampleForced(target, files, force) == force

MustResample(target, files, force) == target \notin files \/ force

\* The loop of register_dwi over (source, target) from the i-th pair on:
\* resample_to_img fails on a source that is not on disk.
RECURSIVE ResampleLoop(_, _, _, _, _, _, _)
ResampleLoop(sources, targets, reference, files, force, i, acc) ==
    IF i > Len(targets) \/ acc.status = "raised" THEN acc
    ELSE LET source == sources[i]
             target == targets[i]
             next   == IF ~ MustResample(target, files, force)
                       THEN [acc EXCEPT !.skipped = @ \cup {target}]
                       ELSE IF source \notin files
                       THEN [acc EXCEPT !.status = "raised", !.error = "RegistrationError",
                                        !.invoked = @ + 1, !.given = @ \cup {target},
                                        !.log = Append(@, "resample")]
                       ELSE [acc EXCEPT !.invoked = @ + 1, !.given = @ \cup {target},
                                        !.written = @ \cup {target},
                                        !.log = Append(@, "resample")]
         IN  ResampleLoop(sources, targets, reference, files, force, i + 1, next)

\* register_dwi(parcellation_scheme, session, anatomical_whole_brain,
\* anatomical_gm_cropped, force).
RegisterDwi(der, lay, files, parcellation_scheme, session, anatomical_whole_brain, anatomical_gm_cropped, force) ==
    LET reference == GetDerivative(der, lay, session, "coreg_dwi_image")
    IN  IF reference = None
        THEN [NoOutcome EXCEPT !.status = "raised", !.error = "FileNotFoundError"]
        ELSE
        LET outputs == RegBuildOutputDictionary(parcellation_scheme, reference, "dwi")
            start   == [NoOutcome EXCEPT !.planned = outputs, !.log = <<"planned">>]
            done    == ResampleLoop(<<anatomical_whole_brain, anatomical_gm_cropped>>,
                                    <<outputs.whole_brain, outputs.gm_cropped>>,
                                    reference, files, force, 1, start)
        IN  IF done.status = "raised" THEN done ELSE [done EXCEPT !.result = outputs]

\* listify_sessions(sessions): the requested sessions as a list when every
\* one of them is a session of the derivatives, all sessions otherwise.
\* A listing that does not look at the available sessions.
ListifySessionsMutant(sessions, available) ==
    IF sessions.kind = "str" THEN sessions.items
    ELSE IF sessions.kind = "list" THEN sessions.items
    ELSE available

ListifySessions(sessions, available) ==
    LET listed == IF sessions.kind = "str" THEN ListArg(sessions.items) ELSE sessions
    IN  IF listed.kind = "list" /\ \A i \in DOMAIN listed.items :
                                       listed.items[i] \in Range(available)
        THEN listed.items
        ELSE available

(***************************************************************************)
(* parcellations/parcellations.py: NativeParcellation, the registration of *)
(* the participants of a dataset.                                          *)
(***************************************************************************)
\* NativeParcellation.build_output_dictionary(parcellation_scheme, reference,
\* reference_type): the paths the path builder of the index gives.
ParcOutputPath(parcellation_scheme, reference, reference_type, label) ==
    DataGrabberBuildPath(reference,
        Overlay(Overlay([atlas |-> parcellation_scheme, resolution |-> reference_type],
                        DEFAULT_PARCELLATION_NAMING),
                [label |-> label]))

ParcPaths ==
    [k \in Schemes \X {f[1] : f \in SourceFiles} \X {"anat", "dwi"} \X {"", "GM"} |->
        ParcOutputPath(k[1], k[2], k[3], k[4])] @@ <<>>

ParcBuildOutputDictionary(parcellation_scheme, reference, reference_type) ==
    [whole_brain |-> ParcPaths[<<parcellation_scheme, reference, reference_type, "">>],
     gm_cropped  |-> ParcPaths[<<parcellation_scheme, reference, reference_type, "GM">>]]

\* initiate_subject(participant_label): the transforms, the anatomical
\* reference and the gray-matter segmentation, each None when not found.
InitiateSubject(der, lay, participant_label) ==
    << GetTransforms(der, lay, participant_label, NoneDict),
       GetReference(der, lay, participant_label, "anat", NoneDict),
       GetProbseg(der, lay, participant_label, "GM", NoneDict) >>

\* NativeParcellation.register_to_anatomical(parcellation_scheme,
\* participant_label, probseg_threshold, force).
ParcRegisterToAnatomical(der, lay, files, parcellation_scheme, participant_label, probseg_threshold, force) ==
    LET req        == InitiateSubject(der, lay, participant_label)
        mni2native == Get(req[1], "mni2native")
        reference  == req[2]
        gm_probseg == req[3]
    IN  IF reference = None
        THEN \* the path builder is handed None as its source
             [NoOutcome EXCEPT !.status = "raised", !.error = "TypeError"]
        ELSE
        LET outputs == ParcBuildOutputDictionary(parcellation_scheme, reference, "anat")
            planned == [NoOutcome EXCEPT !.planned = outputs, !.log = <<"planned">>]
            wrote1  == ManagerWrites(outputs.whole_brain, files, force)
            wrote2  == ManagerWrites(outputs.gm_cropped, files, force)
        IN  IF mni2native = None
            THEN [planned EXCEPT !.status = "raised", !.error = "RegistrationError",
                                 !.invoked = 1, !.given = {outputs.whole_brain},
                                 !.log = <<"planned", "register">>]
            ELSE IF gm_probseg = None
            THEN [planned EXCEPT !.status = "raised", !.error = "RegistrationError",
                                 !.invoked = 2, !.given = Range(outputs), !.written = wrote1,
                                 !.log = <<"planned", "register", "crop">>]
            ELSE [planned EXCEPT !.result = outputs, !.invoked = 2, !.given = Range(outputs),
                                 !.written = wrote1 \cup wrote2,
                                 !.kwargs = [masking_threshold |->
                                                MaskingThreshold(probseg_threshold)],
                                 !.log = <<"planned", "register", "crop">>]

\* NativeParcellation.register_dwi(parcellation_scheme, participant_label,
\* session, anatomical_whole_brain, anatomical_gm_cropped, force): the
\* reference goes to build_output_dictionary as get_reference returned it.
ParcRegisterDwi(der, lay, files, parcellation_scheme, participant_label, session, anatomical_whole_brain, anatomical_gm_cropped, force) ==
    LET reference == GetReference(der, lay, participant_label, "dwi", [session |-> session])
    IN  IF reference = None
        THEN \* the path builder is handed None as its source
             [NoOutcome EXCEPT !.status = "raised", !.error = "TypeError"]
        ELSE
        LET outputs == ParcBuildOutputDictionary(parcellation_scheme, reference, "dwi")
            start   == [NoOutcome EXCEPT !.planned = outputs, !.log = <<"planned">>]
            done    == ResampleLoop(<<anatomical_whole_brain, anatomical_gm_cropped>>,
                                    <<outputs.whole_brain, outputs.gm_cropped>>,
                                    reference, files, force, 1, start)
        IN  IF done.status = "raised" THEN done ELSE [done EXCEPT !.result = outputs]

(***************************************************************************)
(* NativeRegistration.run and NativeParcellation.run_single_subject: the   *)
(* anatomical registration, then the resampling of every session.          *)
(***************************************************************************)
RegistrationClasses == {"registration", "parcellation"}

RegisterToAnatomicalOf(class, der, lay, files, parcellation_scheme, participant_label, probseg_threshold, force) ==
    IF class = "registration"
    THEN RegisterToAnatomical(der, lay, files, parcellation_scheme, probseg_threshold, force)
    ELSE ParcRegisterToAnatomical(der, lay, files, parcellation_scheme, participant_label,
                                  probseg_threshold, force)

RegisterDwiOf(class, der, lay, files, parcellation_scheme, participant_label, session, anat, force) ==
    IF class = "registration"
    THEN RegisterDwi(der, lay, files, parcellation_scheme, session, anat.whole_brain,
                     anat.gm_cropped, force)
    ELSE ParcRegisterDwi(der, lay, files, parcellation_scheme, participant_label, session,
                         anat.whole_brain, anat.gm_cropped, force)

\* The outcome of the run so far after register_dwi of one session:
\* outputs[session] = {"whole_brain": ..., "gm_cropped": ...}.
SessionProgressMutant(acc, session, out) ==
    [acc EXCEPT !.status = out.status, !.error = out.error,
                !.result = IF out.status = "returned"
                           THEN Overlay(@, [k \in {"anat"} |-> out.result]) ELSE @,
                !.invoked = @ + out.invoked, !.given = @ \cup out.given,
                !.written = @ \cup out.written, !.skipped = @ \cup out.skipped,
                !.log = Append(@, "register_dwi"), !.attempted = Append(@, session)]

\* A loop that goes on to the next session when register_dwi raised.
SessionProgressSkipsFailure(acc, session, out) ==
    [acc EXCEPT !.result = IF out.status = "returned"
                           THEN Overlay(@, [k \in {session} |-> out.result]) ELSE @,
                !.invoked = @ + out.invoked, !.given = @ \cup out.given,
                !.written = @ \cup out.written, !.skipped = @ \cup out.skipped,
                !.log = Append(@, "register_dwi"), !.attempted = Append(@, session)]

SessionProgress(acc, session, out) ==
    [acc EXCEPT !.status = out.status, !.error = out.error,
                !.result = IF out.status = "returned"
                           THEN Overlay(@, [k \in {session} |-> out.result]) ELSE @,
                !.invoked = @ + out.invoked, !.given = @ \cup out.given,
                !.written = @ \cup out.written, !.skipped = @ \cup out.skipped,
                !.log = Append(@, "register_dwi"), !.attempted = Append(@, session)]

\* The loop of the run over the sessions, from the i-th on.
RECURSIVE RunRegisterDwi(_, _, _, _, _, _, _, _, _, _, _)
RunRegisterDwi(class, der, lay, files, parcellation_scheme, participant_label, sessions, anat, force, i, acc) ==
    IF i > Len(sessions) \/ acc.status = "raised" THEN acc
    ELSE The({RunRegisterDwi(class, der, lay, files, parcellation_scheme, participant_label,
                             sessions, anat, force, i + 1, next) :
                next \in {SessionProgress(acc, sessions[i], out) :
                            out \in {RegisterDwiOf(class, der, lay, files \cup acc.written,
                                                   parcellation_scheme, participant_label,
                                                   sessions[i], anat, force)}}})

\* The run once register_to_anatomical has ended as anat_out:
\* outputs["anat"], then the loop over the sessions (a list, or None).
RunAfterAnatomical(class, der, lay, files, parcellation_scheme, participant_label, sessions, force, anat_out) ==
    LET called == [anat_out EXCEPT !.planned = EmptyDict, !.result = EmptyDict,
                                   !.log = <<"register_to_anatomical">>]
    IN  IF anat_out.status = "raised" THEN called
        ELSE IF sessions = NoneList
        THEN \* for session in None
             [called EXCEPT !.status = "raised", !.error = "TypeError"]
        ELSE RunRegisterDwi(class, der, lay, files, parcellation_scheme, participant_label,
                            sessions, anat_out.result, force, 1,
                            [called EXCEPT !.result = [k \in {"anat"} |-> anat_out.result]])

\* NativeRegistration.run(parcellation_scheme, session, probseg_threshold, force).
RegistrationRun(der, lay, files, parcellation_scheme, session, probseg_threshold, force) ==
    The({RunAfterAnatomical("registration", der, lay, files, parcellation_scheme,
                            RegParticipant, ListifySessions(session, RegSessions), force,
                            anat_out) :
           anat_out \in {RegisterToAnatomical(der, lay, files, parcellation_scheme,
                                              probseg_threshold, force)}})

\* The sessions NativeParcellation.run_single_subject goes over:
\* self.subjects.get(participant_label) or session, a string made a list.
ParcSessions(subs, participant_label, session) ==
    LET held == SubjectsGet(subs, participant_label)
    IN  IF held # NoneList /\ held # <<>> THEN held
        ELSE IF session.kind = "none" THEN NoneList
        ELSE session.items

\* NativeParcellation.run_single_subject(parcellation_scheme, participant_label,
\* session, probseg_threshold, force).
ParcRunSingleSubject(der, lay, files, subs, parcellation_scheme, participant_label, session, probseg_threshold, force) ==
    The({RunAfterAnatomical("parcellation", der, lay, files, parcellation_scheme,
                            participant_label,
                            ParcSessions(subs, participant_label, session), force, anat_out) :
           anat_out \in {ParcRegisterToAnatomical(der, lay, files, parcellation_scheme,
                                                  participant_label, probseg_threshold,
                                                  force)}})

(***************************************************************************)
(* utils/utils.py, qsiprep_analysis.py, manager.py: instantiation.         *)
(***************************************************************************)
\* Objects are records with a kind; None where an object is expected.
NoneObject == [kind |-> "None"]

\* Truthiness of a string or path (None and "" are falsy) and of an object.
TruthyStr(v) == v # None /\ v # ""

TruthyObj(o) == o.kind # "None"

\* validate_instantiation(derivatives, base_dir, sessions_base, participant_label).
ValidateInstantiationMutant(derivatives, base_dir, sessions_base, participant_label) ==
    IF ~ TruthyObj(derivatives)
    THEN IF ~ (TruthyStr(base_dir) \/ TruthyStr(participant_label))
         THEN [raised |-> TRUE, error |-> "ValueError", value |-> NoneObject]
         ELSE [raised |-> FALSE, error |-> None,
               value |-> [kind |-> "QsiprepDerivatives",
                          participant |-> [label |-> participant_label, base_dir |-> base_dir,
                                           sessions_base |-> sessions_base]]]
    ELSE [raised |-> FALSE, error |-> None, value |-> derivatives]

ValidateInstantiation(derivatives, base_dir, sessions_base, participant_label) ==
    IF TruthyStr(participant_label) /\ TruthyObj(derivatives)
    THEN [raised |-> TRUE, error |-> "ValueError", value |-> NoneObject]
    ELSE IF ~ TruthyObj(derivatives)
    THEN IF ~ (TruthyStr(base_dir) /\ TruthyStr(participant_label))
         THEN [raised |-> TRUE, error |-> "ValueError", value |-> NoneObject]
         ELSE [raised |-> FALSE, error |-> None,
               value |-> [kind |-> "QsiprepDerivatives",
                          participant |-> [label |-> participant_label, base_dir |-> base_dir,
                                           sessions_base |-> sessions_base]]]
    ELSE [raised |-> FALSE, error |-> None, value |-> derivatives]

\* QsiprepManager.__init__(base_dir, data_grabber, participant_labels) and
\* NativeParcellation.__init__: self.data_grabber =
\* validate_instantiation(self, base_dir, data_grabber), up to that assignment.
ManagerInit(class, base_dir, data_grabber) ==
    LET self == [kind |-> class]
    IN  ValidateInstantiation(self, base_dir, data_grabber, None)

(***************************************************************************)
(* The calls a caller makes, one action per call.                          *)
(***************************************************************************)
Classes == {"dipy", "mrtrix", "registration"}

\* The tensor types and metric lists callers ask for: registered and
\* unregistered types, declared and undeclared metrics.
TensorTypeRequests == {"diffusion_tensor", "diffusion_kurtosis", "restore_tensor", "q_ball"}

MetricRequests == {NoneList, <<>>, <<"fa">>, <<"fa", "ad">>, <<"md", "fa">>, <<"kurt">>,
                   <<"dt_tensor", "kurt">>}

\* The sessions the single-input calls draw their input sets from.
JobPairs == {<<"01", "a">>}

(***************************************************************************)
(* The objects that outlive a call: the instance's Subject Registry        *)
(* (self.subjects, self.derivatives.sessions) and the class-level          *)
(* dictionaries.  A call changes one of them only by assigning into a      *)
(* variable that is bound to it.                                           *)
(***************************************************************************)
\* A binding in which the naming query is the class-level dictionary itself
\* rather than a copy of it.
BindingsMutant(class) ==
    [variable \in {"target", "workflow_kwargs", "query", "result", "tensor_metrics",
                   "participant_labels", "tensor_kwargs", "outputs", "sessions",
                   "basic_query", "source_entities", "combined_filters", "transforms",
                   "native_parcellations"} |->
        IF variable = "query" THEN "DEFAULT_PARCELLATION_NAMING" ELSE "local"]

\* The object each variable of a class's methods is bound to: "local" is an
\* object the call created (a literal, dict(...), list(...), .copy(), a
\* parsed entity dictionary), any other value names the shared object the
\* variable aliases.
Bindings(class) ==
    CASE class \in Variants ->
           [target          |-> "local",          \* target = {}
            workflow_kwargs |-> "local",          \* workflow_kwargs = {}
            query           |-> "local",          \* dict(subject=..., **DWI_QUERY_ENTITIES)
            result          |-> "local",          \* result = [] / result = {}
            tensor_metrics  |-> "local",          \* tensor_metrics = {}
            participant_labels |-> "local",       \* list(self.subjects.keys())
            tensor_kwargs   |-> "TENSOR_TYPES",   \* self.TENSOR_TYPES.get(tensor_type)
            outputs         |-> "METRICS",        \* outputs or self.METRICS.get(tensor_type)
            sessions        |-> "subjects"]       \* session or self.subjects.get(label)
      [] class = "registration" ->
           [basic_query     |-> "local",          \* dict(atlas=..., **DEFAULT_PARCELLATION_NAMING)
            query           |-> "local",          \* basic_query.copy()
            outputs         |-> "local",          \* outputs = {}
            source_entities |-> "local",          \* parse_file_entities(source)
            sessions        |-> "derivatives.sessions"]   \* return self.derivatives.sessions
      [] class = "parcellation" ->
           [basic_query     |-> "local",          \* dict(..., **DEFAULT_PARCELLATION_NAMING.copy())
            query           |-> "local",          \* dict(subject=..., **QUERIES.get(..)) / .copy()
            combined_filters |-> "local",         \* original.copy()
            transforms      |-> "local",          \* transforms = {}
            outputs         |-> "local",          \* outputs = {}
            native_parcellations |-> "local",     \* native_parcellations = {}
            sessions        |-> "subjects"]       \* self.subjects.get(label) or session
      [] OTHER ->
           [combined_filters |-> "local",         \* original.copy()
            source_entities |-> "local"]          \* parse_file_entities(source)

\* The variables an operation, with the methods it calls, assigns into
\* (d[key] = value, l.append(value)).
Assigned(class, op) ==
    CASE class \in Variants /\ op = "build_output_dictionary" -> {"target"}
      [] class \in Variants /\ op = "run_single_input" -> {"target", "workflow_kwargs"}
      [] class \in Variants /\ op = "run_single_subject" ->
           {"target", "workflow_kwargs", "query", "result"}
      [] class \in Variants /\ op = "run_dataset" ->
           {"target", "workflow_kwargs", "query", "result", "tensor_metrics"}
      [] class = "registration" /\ op \in {"register_to_anatomical", "register_dwi"} ->
           {"query", "outputs", "source_entities"}
      [] class = "registration" /\ op = "run" -> {"query", "outputs", "source_entities"}
      [] class = "parcellation" /\ op = "get_transforms" -> {"transforms", "combined_filters"}
      [] class = "parcellation" /\ op \in {"get_reference", "get_probseg"} ->
           {"combined_filters"}
      [] class = "parcellation" /\ op = "register_to_anatomical" ->
           {"transforms", "combined_filters", "query", "outputs"}
      [] class = "parcellation" /\ op = "register_dwi" ->
           {"combined_filters", "query", "outputs"}
      [] class = "parcellation" /\ op = "run_single_subject" ->
           {"transforms", "combined_filters", "query", "outputs"}
      [] op = "apply_bids_filters" -> {"combined_filters"}
      [] op = "build_relative_path" -> {"source_entities"}
      [] OTHER -> {}

\* The shared objects an operation assigns into.
SharedAssigned(class, op) ==
    {Bindings(class)[variable] : variable \in Assigned(class, op)} \ {"local"}

\* The Subject Registry after an operation: as it was, unless the operation
\* assigned into one of its session lists.
RegistryAfter(class, op, subs) ==
    IF "subjects" \in SharedAssigned(class, op)
    THEN Append(subs, [label |-> "<assigned>", sessions |-> <<>>])
    ELSE subs

NoCall ==
    Overlay([op |-> "none", args |-> EmptyDict, existed |-> FALSE, present |-> {},
             assigned |-> {}], NoOutcome)

NoPrev == [same |-> FALSE, invoked |-> 0, given |-> {}, result |-> EmptyDict,
           complete |-> FALSE]

\* The record of a call: its name and arguments, whether every planned
\* output existed when it started and which of them did, and its outcome.
CallRecord(op, args, files, out) ==
    Overlay([op |-> op, args |-> args,
             existed |-> (Range(out.planned) \subseteq files),
             present |-> (Range(out.planned) \cap files), assigned |-> {}], out)

\* What the call before was, when this call (op, args) repeats its job:
\* its external invocations, its result, and whether every output it planned
\* is on disk now.
PrevRecord(op, args, files) ==
    IF last.op = op /\ last.args = args
    THEN [same |-> TRUE, invoked |-> last.invoked, given |-> last.given,
          result |-> last.result,
          complete |-> last.status = "returned" /\ Range(last.planned) \subseteq files]
    ELSE NoPrev

Record(op, args, out) ==
    /\ last' = [CallRecord(op, args, fs, out) EXCEPT !.assigned = SharedAssigned(cls, op)]
    /\ prev' = PrevRecord(op, args, fs)
    /\ fs' = fs \cup out.written
    /\ ncalls' = ncalls + 1
    /\ subjects' = RegistryAfter(cls, op, subjects)
    /\ UNCHANGED <<layout, derivs, cls>>

\* TensorEstimation.run_single_input on an input set get_subject_dwi located.
CallRunSingleInput ==
    /\ cls \in {"dipy", "mrtrix"}
    /\ ncalls < MaxCalls
    /\ \E pr \in JobPairs, tensor_type \in TensorTypeRequests,
          out_metrics \in MetricRequests, force \in BOOLEAN :
         LET dwis == IF cls = "dipy" THEN GetSubjectDwi(layout, pr[1], pr[2])
                     ELSE GetSubjectDwiMrtrix(layout, pr[1], pr[2])
         IN  \E i \in DOMAIN dwis :
             \E out \in {RunSingleInput(cls, layout, fs, dwis[i], tensor_type,
                                        out_metrics, force)} :
               Record("run_single_input",
                      [inputs |-> dwis[i], tensor_type |-> tensor_type,
                       out_metrics |-> out_metrics, force |-> force], out)

\* The probability thresholds callers pass (thousandths), None included.
ThresholdRequests == {NoneNumber, 0, 500}

\* NativeRegistration.register_to_anatomical.
CallRegisterToAnatomical ==
    /\ cls = "registration"
    /\ ncalls < MaxCalls
    /\ \E scheme \in Schemes, probseg_threshold \in ThresholdRequests, force \in BOOLEAN :
         \E out \in {RegisterToAnatomical(derivs, layout, fs, scheme, probseg_threshold,
                                          force)} :
           Record("register_to_anatomical",
                  [parcellation_scheme |-> scheme, probseg_threshold |-> probseg_threshold,
                   force |-> force], out)

\* NativeRegistration.register_dwi, given the anatomical parcellations
\* register_to_anatomical returns.
CallRegisterDwi ==
    /\ cls = "registration"
    /\ ncalls < MaxCalls
    /\ GetDerivative(derivs, layout, None, "anat_reference") # None
    /\ \E scheme \in Schemes, session \in Range(RegSessions), force \in BOOLEAN :
         LET anat == RegBuildOutputDictionary(scheme,
                         GetDerivative(derivs, layout, None, "anat_reference"), "anat")
         IN  \E out \in {RegisterDwi(derivs, layout, fs, scheme, session, anat.whole_brain,
                                      anat.gm_cropped, force)} :
               Record("register_dwi",
                      [parcellation_scheme |-> scheme, session |-> session, force |-> force],
                      out)

\* TensorEstimation.build_output_dictionary for a registered tensor type.
CallBuildOutputDictionary ==
    /\ cls \in {"dipy", "mrtrix"}
    /\ ncalls < MaxCalls
    /\ \E pr \in JobPairs, tensor_type \in DOMAIN TENSOR_TYPES(cls),
          outputs \in MetricRequests :
         \E built \in {BuildOutputDictionary(cls, DwiPath(pr[1], pr[2]), tensor_type,
                                             outputs)} :
           Record("build_output_dictionary",
                  [source |-> DwiPath(pr[1], pr[2]), tensor_type |-> tensor_type,
                   outputs |-> outputs],
                  IF built.raised
                  THEN [NoOutcome EXCEPT !.status = "raised", !.error = "AttributeError"]
                  ELSE [NoOutcome EXCEPT !.result = built.target, !.planned = built.target,
                                         !.warnings = built.warnings])

\* The filters callers pass to the locators, None included.
FilterRequests == {NoneDict, [space |-> "MNI152NLin2009cAsym"], [run |-> "2"]}

\* The maximal number of locator calls in a behaviour.
MaxLookups == 1

\* The maximal number of subject-level and dataset-level runs in a behaviour.
MaxRuns == 1

\* NativeParcellation.get_transforms.
CallGetTransforms ==
    /\ cls = "parcellation"
    /\ ncalls < MaxLookups
    /\ \E participant_label \in Participants, bids_filters \in FilterRequests :
         Record("get_transforms",
                [participant_label |-> participant_label, bids_filters |-> bids_filters],
                [NoOutcome EXCEPT
                    !.result = GetTransforms(derivs, layout, participant_label, bids_filters)])

\* NativeParcellation.get_reference.
CallGetReference ==
    /\ cls = "parcellation"
    /\ ncalls < MaxLookups
    /\ \E participant_label \in Participants, reference_type \in {"anat", "dwi"},
          bids_filters \in FilterRequests :
         Record("get_reference",
                [participant_label |-> participant_label, reference_type |-> reference_type,
                 bids_filters |-> bids_filters],
                [NoOutcome EXCEPT
                    !.result = GetReference(derivs, layout, participant_label, reference_type,
                                            bids_filters)])

\* NativeParcellation.get_probseg.
CallGetProbseg ==
    /\ cls = "parcellation"
    /\ ncalls < MaxLookups
    /\ \E participant_label \in Participants, tissue_type \in {"GM", "gm", "wm"},
          bids_filters \in FilterRequests :
         Record("get_probseg",
                [participant_label |-> participant_label, tissue_type |-> tissue_type,
                 bids_filters |-> bids_filters],
                [NoOutcome EXCEPT
                    !.result = GetProbseg(derivs, layout, participant_label, tissue_type,
                                          bids_filters)])

\* The sessions callers ask a run for: none, one, several, one the
\* participant does not have.
SessionRequests ==
    {NoneArg, StrArg("a"), StrArg("c"), ListArg(<<"b">>), ListArg(<<"a", "b">>),
     ListArg(<<"b", "a">>)}

RunThresholdRequests == {NoneNumber, 500}

\* NativeRegistration.run.
CallRun ==
    /\ cls = "registration"
    /\ ncalls < MaxRuns
    /\ \E scheme \in Schemes, session \in SessionRequests,
          probseg_threshold \in RunThresholdRequests, force \in BOOLEAN :
         \E out \in {RegistrationRun(derivs, layout, fs, scheme, session, probseg_threshold,
                                     force)} :
           Record("run",
                  [parcellation_scheme |-> scheme, session |-> session,
                   probseg_threshold |-> probseg_threshold, force |-> force], out)

\* NativeParcellation.register_to_anatomical.
CallParcRegisterToAnatomical ==
    /\ cls = "parcellation"
    /\ ncalls < MaxRuns
    /\ \E scheme \in Schemes, participant_label \in Participants,
          probseg_threshold \in RunThresholdRequests, force \in BOOLEAN :
         \E out \in {ParcRegisterToAnatomical(derivs, layout, fs, scheme, participant_label,
                                              probseg_threshold, force)} :
           Record("register_to_anatomical",
                  [parcellation_scheme |-> scheme, participant_label |-> participant_label,
                   probseg_threshold |-> probseg_threshold, force |-> force], out)

\* NativeParcellation.register_dwi, given the anatomical parcellations
\* register_to_anatomical returns.
CallParcRegisterDwi ==
    /\ cls = "parcellation"
    /\ ncalls < MaxCalls
    /\ GetReference(derivs, layout, RegParticipant, "anat", NoneDict) # None
    /\ \E scheme \in Schemes, session \in Range(RegSessions), force \in BOOLEAN :
         LET anat == ParcBuildOutputDictionary(scheme,
                         GetReference(derivs, layout, RegParticipant, "anat", NoneDict),
                         "anat")
         IN  \E out \in {ParcRegisterDwi(derivs, layout, fs, scheme, RegParticipant, session,
                                          anat.whole_brain, anat.gm_cropped, force)} :
               Record("register_dwi",
                      [parcellation_scheme |-> scheme, participant_label |-> RegParticipant,
                       session |-> session, force |-> force], out)

\* NativeParcellation.run_single_subject.
CallParcRunSingleSubject ==
    /\ cls = "parcellation"
    /\ ncalls < MaxRuns
    /\ \E scheme \in Schemes, session \in SessionRequests,
          probseg_threshold \in RunThresholdRequests, force \in BOOLEAN :
         \E out \in {ParcRunSingleSubject(derivs, layout, fs, subjects, scheme, RegParticipant,
                                          session, probseg_threshold, force)} :
           Record("run_single_subject",
                  [parcellation_scheme |-> scheme, participant_label |-> RegParticipant,
                   session |-> session, probseg_threshold |-> probseg_threshold,
                   force |-> force], out)

\* The filter dictionaries the locators build (the fixed queries with the
\* subject) and the replacements callers lay over them, None included.
OriginalFilters ==
    {Overlay([subject |-> p], QUERIES[q]) : p \in Participants, q \in DOMAIN QUERIES}

ReplacementFilters ==
    FilterRequests \cup {EmptyDict, [session |-> "a"], [suffix |-> "dseg", space |-> None],
                          [subject |-> "03", session |-> "b"], [desc |-> "brain"]}

\* apply_bids_filters called directly.
CallApplyBidsFilters ==
    /\ cls = "paths"
    /\ ncalls < MaxLookups
    /\ \E original \in OriginalFilters, replacements \in ReplacementFilters :
         Record("apply_bids_filters",
                [original |-> original, replacements |-> replacements],
                [NoOutcome EXCEPT
                    !.result = ApplyBidsFilters(original, replacements),
                    !.objects = ApplyBidsFiltersObjects(original, replacements)])

\* The replacements build_relative_path is given: the naming of a
\* parcellation, of a tensor metric, of a brain mask, and none.
ReplacementEntities ==
    {EmptyDict,
     [desc |-> "brain", suffix |-> "mask"],
     [acquisition |-> "dt", desc |-> "fa", suffix |-> "dwiref", resolution |-> "dwi"],
     [atlas |-> "schaefer400", resolution |-> "anat", space |-> "T1w", suffix |-> "dseg",
      desc |-> "", label |-> "GM"],
     [atlas |-> "schaefer400", resolution |-> "dwi", space |-> "T1w", suffix |-> "dseg",
      desc |-> "", label |-> "WholeBrain"],
     [session |-> "b"],
     [subject |-> "02", space |-> "MNI152NLin2009cAsym"]}

\* build_relative_path called directly on a file of the index.
CallBuildRelativePath ==
    /\ cls = "paths"
    /\ ncalls < MaxLookups
    /\ \E f \in SourceFiles, replacements \in ReplacementEntities :
         Record("build_relative_path",
                [source |-> f[1], replacements |-> replacements],
                [NoOutcome EXCEPT
                    !.result = BuildRelativePath(f[1], replacements),
                    !.objects = BuildRelativePathObjects(f[1], replacements)])

\* The outcome of a call that raises or returns a value.
ValueOutcome(out) ==
    IF out.raised
    THEN [NoOutcome EXCEPT !.status = "raised", !.error = out.error]
    ELSE [NoOutcome EXCEPT !.result = out.value]

\* The arguments constructors are given.
DerivativesRequests ==
    {NoneObject,
     [kind |-> "QsiprepDerivatives",
      participant |-> [label |-> "02", base_dir |-> "/data", sessions_base |-> None]]}

BaseDirRequests == {None, "", "/data"}

SessionsBaseRequests == {None, "ses"}

LabelRequests == {None, "", "01"}

DataGrabberRequests == {NoneObject, [kind |-> "DataGrabber", base_dir |-> "/data"]}

\* validate_instantiation called directly.
CallValidateInstantiation ==
    /\ cls = "constructors"
    /\ ncalls < MaxCalls
    /\ \E derivatives \in DerivativesRequests, base_dir \in BaseDirRequests,
          sessions_base \in SessionsBaseRequests, participant_label \in LabelRequests :
         Record("validate_instantiation",
                [derivatives |-> derivatives, base_dir |-> base_dir,
                 sessions_base |-> sessions_base, participant_label |-> participant_label],
                ValueOutcome(ValidateInstantiation(derivatives, base_dir, sessions_base,
                                                   participant_label)))

\* QsiprepAnalysis.__init__(derivatives, base_dir, participant_label, sessions_base),
\* up to the derivatives it hands to Analysis.__init__.
CallQsiprepAnalysis ==
    /\ cls = "constructors"
    /\ ncalls < MaxCalls
    /\ \E derivatives \in DerivativesRequests, base_dir \in BaseDirRequests,
          sessions_base \in SessionsBaseRequests, participant_label \in LabelRequests :
         Record("QsiprepAnalysis",
                [derivatives |-> derivatives, base_dir |-> base_dir,
                 sessions_base |-> sessions_base, participant_label |-> participant_label],
                ValueOutcome(ValidateInstantiation(derivatives, base_dir, sessions_base,
                                                   participant_label)))

\* QsiprepManager(base_dir, data_grabber) and NativeParcellation(base_dir,
\* data_grabber): the value self.data_grabber gets.
CallManagerInit ==
    /\ cls = "constructors"
    /\ ncalls < MaxCalls
    /\ \E class \in {"QsiprepManager", "NativeParcellation"}, base_dir \in BaseDirRequests,
          data_grabber \in DataGrabberRequests :
         Record(class, [base_dir |-> base_dir, data_grabber |-> data_grabber],
                ValueOutcome(ManagerInit(class, base_dir, data_grabber)))

\* The arguments dataset-level calls are given.
DatasetLabelRequests == {NoneArg, StrArg("01"), ListArg(<<"01", "02">>)}

DatasetTypeRequests == {NoneArg, StrArg("diffusion_tensor")}

DatasetMetricRequests == {NoneArg, StrArg("fa"), ListArg(<<"fa", "kurt">>)}

\* TensorEstimation.run_dataset.
CallRunDataset ==
    /\ cls \in {"dipy", "mrtrix"}
    /\ ncalls < MaxRuns
    /\ \E participant_label \in DatasetLabelRequests, tensor_type \in DatasetTypeRequests,
          out_metrics \in DatasetMetricRequests, force \in BOOLEAN :
         \E out \in {RunDataset(cls, layout, fs, subjects, participant_label, tensor_type,
                                out_metrics, force)} :
           Record("run_dataset",
                  [participant_label |-> participant_label, tensor_type |-> tensor_type,
                   out_metrics |-> out_metrics, force |-> force], out)

\* TensorEstimation.run_single_subject.
CallRunSingleSubject ==
    /\ cls \in {"dipy", "mrtrix"}
    /\ ncalls < MaxRuns
    /\ \E participant_label \in {"01", "03"}, session \in {NoneArg, StrArg("a")},
          tensor_type \in DatasetTypeRequests, out_metrics \in {NoneArg, StrArg("fa")},
          force \in BOOLEAN :
         \E out \in {RunSingleSubject(cls, layout, fs, subjects, participant_label, session,
                                      tensor_type, out_metrics, force)} :
           Record("run_single_subject",
                  [participant_label |-> participant_label, session |-> session,
                   tensor_type |-> tensor_type, out_metrics |-> out_metrics, force |-> force],
                  [NoOutcome EXCEPT !.status = out.status, !.error = out.error,
                                    !.result = out.results,
                                    !.invoked = out.invoked, !.given = out.given,
                                    !.written = out.written, !.warnings = out.warnings,
                                    !.log = out.log])

\* The state after construction: an index, an empty output directory, no call made.
InitLayouts ==
    {lay \in [Pairs -> InputStates] :
        /\ \A pr \in Pairs \ JobPairs : lay[pr] = "absent"
        /\ \A pr \in JobPairs : lay[pr] # "absent"}

\* The indexes of a registration: every session's coregistered DWI present or
\* not, every required derivative present or not.
RegLayouts ==
    {lay \in [Pairs -> {"complete", "absent"}] :
        \A pr \in Pairs : pr[1] # RegParticipant => lay[pr] = "absent"}

RegDerivs == SubSeqs(<<IndexCandidates[1], IndexCandidates[3], IndexCandidates[4]>>)

NoDerivs == <<>>

\* The output files on disk when the object is constructed: none; for the
\* shell-command variant, whose only request plans every metric at once, also
\* one metric of sub-01/ses-a left by an earlier run.
InitDisks(class) ==
    IF class = "mrtrix"
    THEN {{}, {BuildOutputDictionary(class, DwiPath("01", "a"), "diffusion_tensor",
                                     NoneList).target.fa}}
    ELSE {{}}

Init ==
    /\ cls \in Classes
    /\ IF cls = "registration"
       THEN layout \in RegLayouts /\ derivs \in RegDerivs
       ELSE layout \in InitLayouts /\ derivs = NoDerivs
    /\ subjects = DataGrabberSubjects(layout)
    /\ fs \in InitDisks(cls)
    /\ last = NoCall
    /\ prev = NoPrev
    /\ ncalls = 0

Next ==
    \/ CallRunSingleInput
    \/ CallBuildOutputDictionary
    \/ CallRegisterToAnatomical
    \/ CallRegisterDwi

Spec == Init /\ [][Next]_vars

\* The locators of a parcellation object over the indexes it may be given.
LocatorDerivs == SubSeqs(IndexCandidates)

InitLocator ==
    /\ cls = "parcellation"
    /\ layout \in RegLayouts
    /\ derivs \in LocatorDerivs
    /\ subjects = DataGrabberSubjects(layout)
    /\ fs = {}
    /\ last = NoCall
    /\ prev = NoPrev
    /\ ncalls = 0

NextLocator ==
    \/ CallGetTransforms
    \/ CallGetReference
    \/ CallGetProbseg

SpecLocator == InitLocator /\ [][NextLocator]_vars

\* The constructors, before any object exists.
InitConstructors ==
    /\ cls = "constructors"
    /\ layout = [pr \in Pairs |-> "absent"]
    /\ derivs = NoDerivs
    /\ subjects = <<>>
    /\ fs = {}
    /\ last = NoCall
    /\ prev = NoPrev
    /\ ncalls = 0

NextConstructors ==
    \/ CallValidateInstantiation
    \/ CallQsiprepAnalysis
    \/ CallManagerInit

SpecConstructors == InitConstructors /\ [][NextConstructors]_vars

\* The dataset-level runs of a tensor estimation over the datasets it may be
\* constructed on: TensorEstimation(data_grabber, participant_labels).
DatasetLayouts ==
    {lay \in [Pairs -> {"complete", "no_bval", "absent"}] :
        /\ lay[<<"01", "a">>] # "absent"
        /\ lay[<<"01", "b">>] # "no_bval"
        /\ lay[<<"02", "b">>] = "absent"}

ConstructorLabels == {NoneArg, ListArg(<<"02", "01">>)}

\* The output files on disk when the object is constructed: none, or the
\* diffusion-tensor metrics of sub-01/ses-a left by an earlier run.
DatasetDisks(variant) ==
    {{}, Range(BuildOutputDictionary(variant, DwiPath("01", "a"), "diffusion_tensor",
                                     NoneList).target)}

InitDataset ==
    /\ cls \in Variants
    /\ layout \in DatasetLayouts
    /\ derivs = NoDerivs
    /\ subjects \in {GetSubjects(DataGrabberSubjects(layout), participant_labels) :
                        participant_labels \in ConstructorLabels}
    /\ fs \in DatasetDisks(cls)
    /\ last = NoCall
    /\ prev = NoPrev
    /\ ncalls = 0

NextDataset ==
    \/ CallRunDataset
    \/ CallRunSingleSubject

SpecDataset == InitDataset /\ [][NextDataset]_vars

\* The registration of parcellations by an object of either class, on an
\* output directory that may hold parcellations of earlier runs: the
\* anatomical ones, and any of the diffusion-space ones of session a.
BuildOutputDictionaryOf(class, parcellation_scheme, reference, resolution) ==
    IF class = "registration"
    THEN RegBuildOutputDictionary(parcellation_scheme, reference, resolution)
    ELSE ParcBuildOutputDictionary(parcellation_scheme, reference, resolution)

RegistrationDisks(class) ==
    LET anat == Range(BuildOutputDictionaryOf(class, "schaefer400", AnatPath(RegParticipant),
                                              "anat"))
        dwi  == Range(BuildOutputDictionaryOf(class, "schaefer400",
                                              DwiPath(RegParticipant, "a"), "dwi"))
    IN  {a \cup d : a \in {{}, anat}, d \in SUBSET dwi}

InitRegistration ==
    /\ cls \in RegistrationClasses
    /\ layout \in RegLayouts
    /\ derivs \in RegDerivs
    /\ subjects = DataGrabberSubjects(layout)
    /\ fs \in RegistrationDisks(cls)
    /\ last = NoCall
    /\ prev = NoPrev
    /\ ncalls = 0

NextRegistration ==
    \/ CallRegisterToAnatomical
    \/ CallRegisterDwi
    \/ CallRun
    \/ CallParcRegisterToAnatomical
    \/ CallParcRegisterDwi
    \/ CallParcRunSingleSubject

SpecRegistration == InitRegistration /\ [][NextRegistration]_vars

\* The helpers called directly: no object is constructed.
\* The sessions listify_sessions is asked for, and the sessions the
\* derivatives may hold.
ListifyRequests ==
    {NoneArg, StrArg("a"), StrArg("c"), ListArg(<<>>), ListArg(<<"b">>),
     ListArg(<<"a", "b">>), ListArg(<<"b", "a">>), ListArg(<<"a", "c">>),
     ListArg(<<"a", "a">>)}

AvailableRequests == {<<>>, <<"a">>, <<"b">>, <<"a", "b">>, <<"b", "a">>}

\* QsiprepAnalysis.listify_sessions(sessions), on an object whose
\* derivatives hold the sessions available.
CallListifySessions ==
    /\ cls = "paths"
    /\ ncalls < MaxLookups
    /\ \E sessions \in ListifyRequests, available \in AvailableRequests :
         Record("listify_sessions", [sessions |-> sessions, available |-> available],
                [NoOutcome EXCEPT !.result = ListifySessions(sessions, available)])

InitPaths ==
    /\ cls = "paths"
    /\ layout = [pr \in Pairs |-> "absent"]
    /\ derivs = NoDerivs
    /\ subjects = <<>>
    /\ fs = {}
    /\ last = NoCall
    /\ prev = NoPrev
    /\ ncalls = 0

NextPaths ==
    \/ CallApplyBidsFilters
    \/ CallBuildRelativePath
    \/ CallListifySessions

SpecPaths == InitPaths /\ [][NextPaths]_vars

(***************************************************************************)
(* The claims.                                                             *)
(***************************************************************************)
Planned == \E i \in DOMAIN last.log : last.log[i] = "planned"

\* C1: in run_single_input, when every planned output file already exists and
\* force is false, the reconstruction workflow is not invoked and the call
\* returns the planned output mapping.
C1_SkipWhenAllOutputsExist ==
    (last.op = "run_single_input" /\ Planned /\ last.existed /\ ~ last.args.force)
        => /\ last.invoked = 0
           /\ last.written = {}
           /\ last.status = "returned"
           /\ last.result = last.planned

C1_Witness ==
    /\ last.op = "run_single_input" /\ Planned /\ last.existed /\ ~ last.args.force
    /\ last.planned # EmptyDict
    /\ last.status = "returned" /\ last.invoked = 0

\* C2: with force true the external computation is invoked even when every
\* output file exists: run_single_input invokes the workflow once it has
\* planned its outputs, register_to_anatomical invokes the registration (and,
\* when that succeeds, the cropping), register_dwi resamples every target.
C2_ForceInvokes ==
    (last.op \in {"run_single_input", "register_to_anatomical", "register_dwi"}
        /\ Planned /\ last.args.force)
        => /\ last.invoked >= 1
           /\ last.status = "returned" => last.given = Range(last.planned)
           /\ (last.status = "returned" /\ last.op # "run_single_input") => last.invoked = 2

C2_Witness ==
    /\ last.op = "register_dwi" /\ last.args.force /\ last.existed
    /\ last.status = "returned" /\ last.invoked = 2

\* C3: a run_single_input or register_dwi job repeated with force=false, after
\* a first run that left every planned output on disk, invokes no external
\* computation, so that no output is computed twice and the workflow runs at
\* most once over both calls; the second call returns the paths of the first.
C3_Idempotent ==
    (last.op \in {"run_single_input", "register_dwi"} /\ prev.same /\ prev.complete
        /\ ~ last.args.force)
        => /\ last.invoked = 0
           /\ last.given \cap prev.given = {}
           /\ last.op = "run_single_input" => prev.invoked + last.invoked <= 1
           /\ last.status = "returned"
           /\ last.result = prev.result

C3_Witness ==
    /\ last.op = "register_dwi" /\ prev.same /\ prev.complete /\ ~ last.args.force
    /\ prev.invoked = 2 /\ last.invoked = 0 /\ last.result = prev.result

\* C4: build_output_dictionary leaves a requested metric that the tensor type
\* does not declare out of the mapping and warns about it, gives every
\* declared requested metric m an entry out_<m>, and does not raise.
C4_MetricValidation ==
    (cls = "dipy" /\ last.op = "build_output_dictionary")
        => LET declared  == Range(TENSOR_DERIVED_METRICS[last.args.tensor_type])
               requested == IF last.args.outputs \in {NoneList, <<>>}
                            THEN TENSOR_DERIVED_METRICS[last.args.tensor_type]
                            ELSE last.args.outputs
           IN  /\ last.status = "returned"
               /\ \A i \in DOMAIN requested :
                    IF requested[i] \in declared
                    THEN ("out_" \o requested[i]) \in DOMAIN last.result
                    ELSE /\ ("out_" \o requested[i]) \notin DOMAIN last.result
                         /\ requested[i] \in Range(last.warnings)
               /\ Range(last.warnings) \cap declared = {}

C4_Witness ==
    /\ cls = "dipy" /\ last.op = "build_output_dictionary"
    /\ last.args.outputs = <<"md", "fa">> /\ last.args.tensor_type = "diffusion_tensor"
    /\ last.warnings = <<"md">> /\ DOMAIN last.result = {"out_fa"}

\* The input set of the last run_single_input lacks a required file.
InputMissing ==
    \E pr \in DOMAIN layout :
        /\ layout[pr] \in {"no_bval", "no_bvec", "no_mask"}
        /\ InputDwi(last.args.inputs) = DwiPath(pr[1], pr[2])

\* C6: when a required input (b-values, b-vectors, brain mask) of the input
\* set is absent, the job fails and the reconstruction workflow is not invoked.
C6_MissingInputFailsBeforeWorkflow ==
    (last.op = "run_single_input" /\ InputMissing)
        => (last.status = "raised" /\ last.invoked = 0)

\* C7: run_single_input with a tensor type that is not a key of TENSOR_TYPES
\* raises NotImplementedError before any output is planned and before the
\* workflow is invoked; a registered type passes validation and its parameter
\* record (fit_method) reaches the workflow arguments.
C7_UnregisteredTensorType ==
    last.op = "run_single_input"
        => IF last.args.tensor_type \notin DOMAIN TENSOR_TYPES(cls)
           THEN /\ last.status = "raised" /\ last.error = "NotImplementedError"
                /\ last.log = <<>> /\ last.planned = EmptyDict
                /\ last.invoked = 0 /\ last.written = {}
           ELSE /\ last.error # "NotImplementedError"
                /\ last.log # <<>> /\ last.log[1] = "validated"
                /\ Planned => last.kwargs["fit_method"]
                                = TENSOR_TYPES(cls)[last.args.tensor_type].fit_method

C7_Witness ==
    /\ cls = "dipy" /\ last.op = "run_single_input" /\ last.args.tensor_type = "q_ball"
    /\ last.status = "raised" /\ last.error = "NotImplementedError"

\* C8: validate_instantiation raises ValueError when both a derivatives object
\* and a participant label are supplied, and when no derivatives object is
\* supplied and base_dir or participant_label is missing; a derivatives object
\* without a participant label is returned as it is; nothing else raises.
C8_ValidateInstantiation ==
    last.op = "validate_instantiation"
        => LET a     == last.args
               has_d == a.derivatives # NoneObject
               has_p == a.participant_label \notin {None, ""}
               has_b == a.base_dir \notin {None, ""}
               error == (has_d /\ has_p) \/ (~ has_d /\ ~ (has_b /\ has_p))
           IN  /\ error => (last.status = "raised" /\ last.error = "ValueError")
               /\ ~ error => last.status = "returned"
               /\ (has_d /\ ~ has_p) => last.result = a.derivatives
               /\ (~ has_d /\ has_b /\ has_p)
                     => /\ last.result.kind = "QsiprepDerivatives"
                        /\ last.result.participant.label = a.participant_label
                        /\ last.result.participant.base_dir = a.base_dir

C8_WitnessBoth ==
    /\ last.op = "validate_instantiation"
    /\ last.args.derivatives # NoneObject /\ last.args.participant_label = "01"
    /\ last.status = "raised" /\ last.error = "ValueError"

C8_Witness ==
    /\ last.op = "validate_instantiation"
    /\ last.args.derivatives = NoneObject /\ last.args.base_dir = "/data"
    /\ last.args.participant_label = None
    /\ last.status = "raised" /\ last.error = "ValueError"

\* C9: constructing QsiprepManager or NativeParcellation with neither a base
\* directory nor a data_grabber raises, and after a successful construction
\* self.data_grabber is a file index, never the manager itself.
C9_ManagerConstruction ==
    last.op \in {"QsiprepManager", "NativeParcellation"}
        => /\ (last.args.base_dir \in {None, ""} /\ last.args.data_grabber = NoneObject)
                => last.status = "raised"
           /\ last.status = "returned" => last.result.kind # last.op

\* C10: the locators never raise on the number of matches: with no matching
\* file in the index they give None (get_transforms a mapping with None for
\* that transform), with one or more the path of the first match.
Index == derivs \o DwiIndex(layout)

Matching(query) == {i \in DOMAIN Index : Passes(Index[i], query)}

FirstMatching(query) ==
    IF Matching(query) = {} THEN None
    ELSE Index[CHOOSE i \in Matching(query) : \A j \in Matching(query) : i <= j].path

Asked(fixed) ==
    LET query == Overlay([subject |-> last.args.participant_label], fixed)
    IN  IF last.args.bids_filters = NoneDict THEN query
        ELSE Overlay(query, last.args.bids_filters)

C10_LocatorsNeverRaise ==
    /\ last.op \in {"get_transforms", "get_reference", "get_probseg"}
          => last.status = "returned"
    /\ last.op = "get_transforms"
          => /\ DOMAIN last.result = {"mni2native", "native2mni"}
             /\ \A t \in DOMAIN last.result :
                    last.result[t] = FirstMatching(Asked(QUERIES[t]))
    /\ last.op = "get_reference"
          => last.result = FirstMatching(Asked(QUERIES[last.args.reference_type \o "_reference"]))
    /\ last.op = "get_probseg"
          => last.result = FirstMatching(Asked([suffix |-> "probseg",
                                                label |-> Upper(last.args.tissue_type)]))

C10_Witness ==
    /\ last.op = "get_transforms" /\ last.status = "returned"
    /\ Cardinality(Matching(Asked(QUERIES["mni2native"]))) = 2
    /\ Matching(Asked(QUERIES["native2mni"])) = {}
    /\ last.result["mni2native"] = IndexCandidates[1].path
    /\ last.result["native2mni"] = None

C10_WitnessProbseg ==
    /\ last.op = "get_probseg" /\ last.status = "returned"
    /\ Cardinality(Matching(Asked([suffix |-> "probseg", label |-> "GM"]))) = 2
    /\ last.result = IndexCandidates[4].path

\* C5: in run_dataset, a subject whose job raises does not stop the loop: every
\* subject the run is asked for either has its results collected or is the
\* one whose own job raised.
Asked5 ==
    IF last.args.participant_label.kind = "none" THEN Range(SubjectsKeys(subjects))
    ELSE Range(last.args.participant_label.items)

C5_PartialFailure ==
    last.op = "run_dataset"
        => \A p \in Asked5 : p \in last.failed \/ p \in DOMAIN last.collected

\* C11: apply_bids_filters(original, replacements) returns a mapping whose
\* keys are the union of both key sets, every key of replacements with the
\* replacements value and every other key with its original value; when
\* replacements is None the result equals original; the original mapping is
\* not modified.
C11_ApplyBidsFilters ==
    last.op = "apply_bids_filters" =>
        LET original     == last.args.original
            replacements == last.args.replacements
        IN  /\ last.status = "returned"
            /\ IF replacements = NoneDict
               THEN last.result = original
               ELSE /\ DOMAIN last.result = DOMAIN original \cup DOMAIN replacements
                    /\ \A k \in DOMAIN replacements : last.result[k] = replacements[k]
                    /\ \A k \in DOMAIN original \ DOMAIN replacements :
                           last.result[k] = original[k]
            /\ last.objects.original = original

C11_Witness ==
    /\ last.op = "apply_bids_filters"
    /\ last.args.replacements # NoneDict
    /\ \E k \in DOMAIN last.args.original \cap DOMAIN last.args.replacements :
           /\ last.args.original[k] # last.args.replacements[k]
           /\ last.result[k] = last.args.replacements[k]
    /\ DOMAIN last.args.replacements \ DOMAIN last.args.original # {}
    /\ last.objects.original # last.result

C11_WitnessNone ==
    /\ last.op = "apply_bids_filters"
    /\ last.args.replacements = NoneDict
    /\ last.result = last.args.original

\* C12: in build_relative_path the entity mapping handed to the pattern
\* matcher is the source's parsed entities overlaid with replacements:
\* every key of replacements carries the replacement value, every other
\* source entity keeps its parsed value; replacements is not modified.
C12_ReplacementsOverlaySource ==
    last.op = "build_relative_path" =>
        LET parsed       == ParseFileEntities(last.args.source)
            replacements == last.args.replacements
            handed       == last.objects.source_entities
        IN  /\ DOMAIN handed = DOMAIN parsed \cup DOMAIN replacements
            /\ \A k \in DOMAIN replacements : handed[k] = replacements[k]
            /\ \A k \in DOMAIN parsed \ DOMAIN replacements : handed[k] = parsed[k]
            /\ last.result = BuildPath(handed, DEFAULT_PATTERNS, 1)
            /\ last.objects.replacements = replacements

C12_Witness ==
    /\ last.op = "build_relative_path"
    /\ \E k \in DOMAIN last.args.replacements \cap DOMAIN ParseFileEntities(last.args.source) :
           /\ last.args.replacements[k] # ParseFileEntities(last.args.source)[k]
           /\ last.objects.source_entities[k] = last.args.replacements[k]
    /\ DOMAIN last.args.replacements \ DOMAIN ParseFileEntities(last.args.source) # {}
    /\ last.result # None
    /\ last.result # last.args.source

\* C18: build_output_dictionary (tensor_estimation.py) returns exactly the
\* keys out_<m> for the requested metrics m the tensor type declares, or for
\* every declared metric when none is requested; the path of a metric such
\* as fa or ad carries the metric as description entity and the acquisition
\* code of the tensor type (dt for diffusion_tensor).
C18_OutputDictionaryKeys ==
    (cls = "dipy" /\ last.op = "build_output_dictionary")
        => LET declared  == Range(TENSOR_DERIVED_METRICS[last.args.tensor_type])
               requested == IF last.args.outputs \in {NoneList, <<>>} THEN declared
                            ELSE Range(last.args.outputs)
               acq       == TENSOR_TYPES("dipy")[last.args.tensor_type].acq
           IN  /\ last.status = "returned"
               /\ DOMAIN last.result = {"out_" \o m : m \in requested \cap declared}
               /\ \A m \in requested \cap declared :
                    SplitUnderscore(m) = <<m>> =>
                        last.result["out_" \o m] =
                            BuildPath(Overlay(ParseFileEntities(last.args.source),
                                              [acquisition |-> acq, desc |-> m,
                                               suffix |-> "dwiref", resolution |-> "dwi"]),
                                      DEFAULT_PATTERNS, 1)

C18_Witness ==
    /\ cls = "dipy" /\ last.op = "build_output_dictionary"
    /\ last.args.tensor_type = "diffusion_tensor" /\ last.args.outputs = <<"fa", "ad">>
    /\ DOMAIN last.result = {"out_fa", "out_ad"}
    /\ last.result["out_fa"] # last.result["out_ad"]

C18_WitnessAll ==
    /\ cls = "dipy" /\ last.op = "build_output_dictionary"
    /\ last.args.tensor_type = "diffusion_tensor" /\ last.args.outputs = NoneList
    /\ Cardinality(DOMAIN last.result) = 9

\* C19: run_dataset returns the nested mapping it has filled: keyed by
\* participant label, holding the results run_single_subject returned for
\* every processed subject.
C19_RunDatasetReturnsMapping ==
    (last.op = "run_dataset" /\ last.status = "returned")
        => /\ last.result # NoneDict
           /\ last.result = last.collected

\* C20: run_dataset given a list of participant labels runs
\* run_single_subject for the labels of the list, one after the other in
\* list order: the subjects it ran are the labels up to the one whose job
\* raised, and all of them when it returns.
C20_ListOfLabels ==
    (last.op = "run_dataset" /\ last.args.participant_label.kind = "list")
        => LET items == last.args.participant_label.items
           IN  /\ Len(last.attempted) >= 1
               /\ Len(last.attempted) <= Len(items)
               /\ \A i \in DOMAIN last.attempted : last.attempted[i] = items[i]
               /\ last.status = "returned" => last.attempted = items

\* The requirements of the last register_to_anatomical as the index holds
\* them: the standard-to-native transform, the anatomical reference and the
\* gray-matter segmentation, None when the index has no such file.
Requirements ==
    IF cls = "registration" THEN CollectRequirements(derivs, layout)
    ELSE LET req == InitiateSubject(derivs, layout, last.args.participant_label)
         IN  <<Get(req[1], "mni2native"), req[2], req[3]>>

\* C13: register_to_anatomical fails when the transform, the anatomical
\* reference or the gray-matter segmentation cannot be located, and then
\* invokes neither the registration nor the cropping routine.
C13_MissingRequirementFails ==
    (last.op = "register_to_anatomical" /\ \E i \in 1..3 : Requirements[i] = None)
        => (last.status = "raised" /\ last.invoked = 0)

\* The coregistered diffusion reference of the session of the last
\* register_dwi, None when the index has no such file.
SessionReference ==
    IF cls = "registration"
    THEN GetDerivative(derivs, layout, last.args.session, "coreg_dwi_image")
    ELSE GetReference(derivs, layout, last.args.participant_label, "dwi",
                      [session |-> last.args.session])

\* C14: register_dwi of either class fails with the missing-reference error
\* (FileNotFoundError) when the session's coregistered diffusion reference
\* cannot be located, and then resamples nothing and writes no file.
C14_MissingReferenceFails ==
    (last.op = "register_dwi" /\ SessionReference = None)
        => /\ last.status = "raised" /\ last.error = "FileNotFoundError"
           /\ last.invoked = 0 /\ last.written = {}

C15_WitnessParcellation ==
    /\ cls = "parcellation" /\ last.op = "register_dwi" /\ last.status = "returned"
    /\ ~ last.args.force
    /\ last.skipped = {last.planned.gm_cropped}
    /\ last.written = {last.planned.whole_brain}

\* The sessions a run is to process: the requested ones when every one of
\* them is a session of the participant, all sessions otherwise.
ExpectedSessions ==
    IF last.args.session.kind # "none"
       /\ Range(last.args.session.items) \subseteq Range(RegSessions)
    THEN Range(last.args.session.items) ELSE Range(RegSessions)

AllRequirementsPresent ==
    /\ \A i \in 1..3 : CollectRequirements(derivs, layout)[i] # None
    /\ \A s \in ExpectedSessions : GetDerivative(derivs, layout, s, "coreg_dwi_image") # None

AvailableSessions ==
    IF cls = "registration" THEN Range(RegSessions)
    ELSE IF SubjectsGet(subjects, last.args.participant_label) = NoneList THEN {}
    ELSE Range(SubjectsGet(subjects, last.args.participant_label))

\* C17: a run asked for sessions the participant has processes exactly
\* those sessions, in the order asked; a run asked for no session processes
\* all the sessions the participant has.
C17_RequestedSessionsOnly ==
    (last.op \in {"run", "run_single_subject"} /\ last.status = "returned")
        => IF last.args.session.kind = "none"
           THEN Range(last.attempted) = AvailableSessions
           ELSE Range(last.args.session.items) \subseteq AvailableSessions
                   => last.attempted = last.args.session.items

\* C21: when run_single_input invokes the workflow for an input set that
\* get_subject_dwi located, the keyword arguments name the image, the
\* b-values, the b-vectors and the mask by the workflow's keywords
\* (input_files, bvalues_files, bvectors_files, mask_files), every value as a
\* string, with the tensor type's fit_method and the planned output paths.
C21_WorkflowKeywords ==
    (cls = "dipy" /\ last.op = "run_single_input" /\ last.invoked > 0)
        => /\ last.kwargs =
                [input_files    |-> Str(last.args.inputs.dwi),
                 bvalues_files  |-> Str(last.args.inputs.bval),
                 bvectors_files |-> Str(last.args.inputs.bvec),
                 mask_files     |-> Str(last.args.inputs.mask),
                 fit_method     |-> TENSOR_TYPES("dipy")[last.args.tensor_type].fit_method]
           /\ last.given = Range(last.planned)

\* C22: register_to_anatomical hands the cropping routine the probability
\* threshold the caller supplied, whatever its value, and the default
\* PROBSEG_THRESHOLD only when the caller supplied none.
C22_ThresholdPassedThrough ==
    (last.op = "register_to_anatomical" /\ "masking_threshold" \in DOMAIN last.kwargs)
        => last.kwargs.masking_threshold =
              IF last.args.probseg_threshold = NoneNumber THEN PROBSEG_THRESHOLD
              ELSE last.args.probseg_threshold

\* The reconstruction of the last run_single_input was invoked and failed.
ReconstructionFailed ==
    /\ last.op = "run_single_input" /\ last.invoked > 0
    /\ ~ WorkflowSucceeds(layout, last.kwargs)

\* C23: when the reconstruction fails during run_single_input, the call
\* raises: it does not return the planned output paths.
C23_FailurePropagates ==
    ReconstructionFailed => (last.status = "raised" /\ last.result = EmptyDict)

\* Every operation of the estimation, registration and parcellation classes,
\* on the estimation objects of SpecDataset and the registration and
\* parcellation objects of SpecRegistration.
InitOperations ==
    \/ InitDataset /\ layout[<<"02", "a">>] = "complete" /\ fs = {}
    \/ InitRegistration

NextOperations ==
    \/ CallRunSingleInput
    \/ CallBuildOutputDictionary
    \/ NextDataset
    \/ NextLocator
    \/ NextRegistration

SpecOperations == InitOperations /\ [][NextOperations]_vars

C24_WitnessRaised ==
    /\ last.op \in {"run_dataset", "run_single_subject", "run", "register_dwi"}
    /\ last.status = "raised"
    /\ Len(subjects) > 0

\* The step before step i of a job log ("start" before the first).
Before(log, i) == IF i = 1 THEN "start" ELSE log[i - 1]

\* The steps that leave no job unfinished.
Finished == {"start", "inputs_resolved", "skipped", "done"}

\* C25: every tensor-estimation job goes through its steps in order: its
\* type is validated after the input sets are resolved, its outputs are
\* planned after the validation, it is skipped or executed only after the
\* planning (never both), done only after executing, and the next job (or the
\* next session) starts only when the job before it has finished.  The
\* workflow is invoked in the executing step only, and a run that returns
\* leaves no job unfinished.
C25_JobOrder ==
    last.op \in {"run_single_subject", "run_dataset"} =>
        /\ \A i \in DOMAIN last.log :
              CASE last.log[i] = "inputs_resolved" -> Before(last.log, i) \in Finished
                [] last.log[i] = "validated" -> Before(last.log, i) \in Finished \ {"start"}
                [] last.log[i] = "planned"   -> Before(last.log, i) = "validated"
                [] last.log[i] = "skipped"   -> Before(last.log, i) = "planned"
                [] last.log[i] = "executing" -> Before(last.log, i) = "planned"
                [] last.log[i] = "done"      -> Before(last.log, i) = "executing"
                [] OTHER -> FALSE
        /\ last.invoked = Cardinality({i \in DOMAIN last.log : last.log[i] = "executing"})
        /\ last.status = "returned" => Before(last.log, Len(last.log) + 1) \in Finished

\* A run of several jobs in which one job was skipped and a later one executed
\* and finished.
C25_Witness ==
    /\ last.op \in {"run_single_subject", "run_dataset"}
    /\ last.status = "returned"
    /\ \E i, j \in DOMAIN last.log :
          i < j /\ last.log[i] = "skipped" /\ last.log[j] = "done"
    /\ Cardinality({i \in DOMAIN last.log : last.log[i] = "inputs_resolved"}) > 1

\* A run that raised while a job was executing, after an earlier job.
C25_WitnessRaised ==
    /\ last.op \in {"run_single_subject", "run_dataset"}
    /\ last.status = "raised"
    /\ Len(last.log) > 0 /\ last.log[Len(last.log)] = "executing"

\* C26: a run_single_input call with force false that finds some but not all
\* of its planned outputs on disk invokes the workflow exactly once and gives
\* it every planned output path, the existing ones included.
C26_PartialOutputsRerunAll ==
    (/\ last.op = "run_single_input" /\ ~ last.args.force
     /\ last.present # {} /\ last.present # Range(last.planned))
        => /\ last.invoked = 1
           /\ last.given = Range(last.planned)
           /\ last.present \subseteq last.given

\* Such a call has returned, in the in-process variant.
C26_Witness ==
    /\ cls = "dipy"
    /\ last.op = "run_single_input" /\ ~ last.args.force
    /\ last.present # {} /\ last.present # Range(last.planned)
    /\ last.status = "returned" /\ last.invoked = 1

\* Such a call has returned, in the shell-command variant.
C26_WitnessMrtrix ==
    /\ cls = "mrtrix"
    /\ last.op = "run_single_input" /\ ~ last.args.force
    /\ last.present # {} /\ last.present # Range(last.planned)
    /\ last.status = "returned" /\ last.invoked = 1

\* The metrics declared for the tensor type of the last call.
Declared == Range(TENSOR_DERIVED_METRICS[last.args.tensor_type])

\* C27: a run_single_input call whose requested metrics are all undeclared
\* plans nothing, and with force false it returns the empty mapping without
\* invoking the workflow, whatever is on disk; an empty list of requested
\* metrics is taken as unspecified: every declared metric is planned.
C27_NothingPlannedNothingRun ==
    (/\ cls = "dipy" /\ last.op = "run_single_input"
     /\ last.args.tensor_type \in DOMAIN TENSOR_TYPES("dipy"))
        => /\ (/\ last.args.out_metrics \notin {NoneList, <<>>}
               /\ Range(last.args.out_metrics) \cap Declared = {})
                 => /\ last.planned = EmptyDict
                    /\ ~ last.args.force
                         => /\ last.status = "returned"
                            /\ last.result = EmptyDict
                            /\ last.invoked = 0
           /\ last.args.out_metrics = <<>>
                 => DOMAIN last.planned = {"out_" \o m : m \in Declared}

\* An unforced call with only undeclared metrics has returned the empty
\* mapping while outputs of an earlier call are on disk.
C27_Witness ==
    /\ cls = "dipy" /\ last.op = "run_single_input"
    /\ last.args.tensor_type \in DOMAIN TENSOR_TYPES("dipy")
    /\ last.args.out_metrics = <<"kurt">> /\ ~ last.args.force
    /\ last.status = "returned" /\ last.result = EmptyDict
    /\ fs # {}

\* A call with an empty list of metrics has run the workflow for every
\* declared metric.
C27_WitnessEmptyList ==
    /\ cls = "dipy" /\ last.op = "run_single_input"
    /\ last.args.out_metrics = <<>>
    /\ last.status = "returned" /\ last.invoked = 1
    /\ Cardinality(DOMAIN last.planned) > 1

\* C28: listify_sessions returns, for every input, a list of available
\* sessions: a string that is available as the one-element list of it, a list
\* whose members are all available as given, and the full list of available
\* sessions for anything else; it never raises.
C28_ListifySessions ==
    last.op = "listify_sessions" =>
        LET sessions  == last.args.sessions
            available == last.args.available
        IN  /\ last.status = "returned"
            /\ \A i \in DOMAIN last.result : last.result[i] \in Range(available)
            /\ last.result =
                 IF sessions.kind = "str" /\ sessions.items[1] \in Range(available)
                 THEN << sessions.items[1] >>
                 ELSE IF sessions.kind = "list" /\ Range(sessions.items) \subseteq Range(available)
                 THEN sessions.items
                 ELSE available

\* A request that names an unavailable session has been answered with the
\* available sessions.
C28_Witness ==
    /\ last.op = "listify_sessions"
    /\ last.args.sessions.kind \in {"str", "list"}
    /\ ~ (Range(last.args.sessions.items) \subseteq Range(last.args.available))
    /\ last.result = last.args.available /\ last.result # <<>>

\* A string naming an available session has been wrapped.
C28_WitnessWrapped ==
    /\ last.op = "listify_sessions"
    /\ last.args.sessions = StrArg("a")
    /\ last.result = <<"a">> /\ Len(last.args.available) = 2

\* C29: output-path planning is injective.  For the source of a
\* build_output_dictionary call, every planned output differs, in its
\* (acquisition code, description) and in its path, from what any other
\* (tensor type, declared metric) pair plans for the same source, so no
\* output of one pair is on the path another pair tests for existence.
C29_PlanningInjective ==
    (cls = "dipy" /\ last.op = "build_output_dictionary")
        => \A m \in Declared :
             ("out_" \o m) \in DOMAIN last.planned =>
                \A t \in DOMAIN TENSOR_TYPES("dipy") :
                  \A n \in Range(TENSOR_DERIVED_METRICS[t]) :
                     <<t, n>> # <<last.args.tensor_type, m>> =>
                        /\ <<TENSOR_TYPES("dipy")[t].acq, OutputDesc(n)>>
                              # <<TENSOR_TYPES("dipy")[last.args.tensor_type].acq, OutputDesc(m)>>
                        /\ TensorOutputPath("dipy", last.args.source, t, OutputDesc(n))
                              # last.planned["out_" \o m]

\* Every metric of the tensor type with the most metrics has been planned,
\* each on its own path.
C29_Witness ==
    /\ cls = "dipy" /\ last.op = "build_output_dictionary"
    /\ last.args.tensor_type = "diffusion_kurtosis"
    /\ DOMAIN last.planned = {"out_" \o m : m \in Declared}
    /\ Cardinality(Range(last.planned)) = Len(TENSOR_DERIVED_METRICS["diffusion_kurtosis"])

\* The sessions the last run processes, in order, and those among them whose
\* diffusion reference is missing.
ExpectedOrder ==
    IF last.args.session.kind # "none"
       /\ Range(last.args.session.items) \subseteq Range(RegSessions)
    THEN last.args.session.items ELSE RegSessions

MissingReference ==
    {k \in DOMAIN ExpectedOrder :
        GetDerivative(derivs, layout, ExpectedOrder[k], "coreg_dwi_image") = None}

\* The diffusion-space outputs of a session and the anatomical outputs.
DwiTargets(session) ==
    Range(RegBuildOutputDictionary(last.args.parcellation_scheme,
                                   DwiPath(RegParticipant, session), "dwi"))

AnatTargets ==
    Range(RegBuildOutputDictionary(last.args.parcellation_scheme, AnatPath(RegParticipant),
                                   "anat"))

\* C30: when the diffusion reference of the k-th session of a
\* NativeRegistration.run is missing, the run raises FileNotFoundError at
\* that session; it writes no diffusion-space output for session k or any
\* later one, and the anatomical outputs and the diffusion-space outputs of
\* the sessions before k stay on disk.
C30_FailureLeavesEarlierOutputs ==
    (/\ cls = "registration" /\ last.op = "run"
     /\ \A i \in 1..3 : CollectRequirements(derivs, layout)[i] # None
     /\ MissingReference # {})
        => LET k == CHOOSE k \in MissingReference : \A j \in MissingReference : k <= j
           IN  /\ last.status = "raised" /\ last.error = "FileNotFoundError"
               /\ last.attempted = SubSeq(ExpectedOrder, 1, k)
               /\ \A j \in k..Len(ExpectedOrder) :
                     DwiTargets(ExpectedOrder[j]) \cap last.written = {}
               /\ AnatTargets \subseteq fs
               /\ \A j \in 1..(k - 1) : DwiTargets(ExpectedOrder[j]) \subseteq fs
               /\ last.written \subseteq fs

\* A run has raised at its second session after writing the anatomical
\* outputs and the outputs of its first session.
C30_Witness ==
    /\ cls = "registration" /\ last.op = "run"
    /\ last.status = "raised" /\ last.error = "FileNotFoundError"
    /\ Len(last.attempted) = 2
    /\ DwiTargets(last.attempted[1]) \subseteq last.written
    /\ AnatTargets \subseteq last.written

====
